---- MODULE Spec2Model ----
(***************************************************************************)
(* A model of the pixel sorting engine of PixelSorting:                    *)
(*   core/sort_keys.py      colour keys (exact rational arithmetic)        *)
(*   core/span_detector.py  span detection                                 *)
(*   core/sorting_engine.py line sorter and region sorter                  *)
(*                                                                         *)
(* Conventions.  A pixel is a triple <<r, g, b>> of 8-bit channels.  A     *)
(* key value is a rational <<num, den>> with den > 0.  Thresholds are held *)
(* in hundredths (the settings panel steps them by 0.01).  Indices of      *)
(* spans and slices are 0-based and half-open, as in the source; TLA+      *)
(* sequences are 1-based, so element i of the source is element i+1 here.  *)
(* A 2-D array is a record [h, w, px] (px a sequence of h rows of w        *)
(* elements), so that empty arrays keep their shape as numpy's do.         *)
(* Operators whose source draws random numbers return the SET of all       *)
(* values the call can return.  The order numpy's default argsort gives    *)
(* to equal keys is not specified; it is the input `tb` of the model.      *)
(***************************************************************************)
EXTENDS Integers, Sequences, FiniteSets, TLC

VARIABLES
    pc,        \* which call has been made: "init", "done"
    heap,      \* region spec: the buffers, a sequence indexed by reference
    args,      \* region spec: the arguments of the sort_region call
    ret,       \* region spec: what the call returned
    trace,     \* region spec: the region as extracted and as sorted
    line,      \* line specs: the input line (pixels, mask, params)
    lineOut,   \* line specs: the outputs of the calls made on the line
    tb         \* the order argsort gives to equal keys

vars == <<pc, heap, args, ret, trace, line, lineOut, tb>>

----------------------------------------------------------------------------
(* Arithmetic and sequence helpers                                         *)

Min(a, b) == IF a < b THEN a ELSE b

Max(a, b) == IF a > b THEN a ELSE b

Abs(a) == IF a < 0 THEN -a ELSE a

RECURSIVE GCD(_, _)
GCD(a, b) == IF b = 0 THEN a ELSE GCD(b, a % b)

RECURSIVE SumSeq(_)
SumSeq(s) == IF s = <<>> THEN 0 ELSE Head(s) + SumSeq(Tail(s))

\* order[::-1] left out: the order as it was.
ReverseNone(s) == s

Reverse(s) == [i \in 1..Len(s) |-> s[Len(s) + 1 - i]]

\* The indices (1-based) of the TRUE entries of a boolean sequence, ascending:
\* np.where(b)[0] + 1.
RECURSIVE WhereFrom(_, _)
WhereFrom(b, i) ==
    IF i > Len(b) THEN <<>>
    ELSE IF b[i] THEN <<i>> \o WhereFrom(b, i + 1)
    ELSE WhereFrom(b, i + 1)

Where(b) == WhereFrom(b, 1)

\* Python's normalisation of a slice bound on a sequence of length n.
SliceBound(i, n) == IF i < 0 THEN Max(i + n, 0) ELSE Min(i, n)

\* s[a:b] of Python (0-based, half-open, negative bounds count from the end).
Slice(s, a, b) ==
    LET lo == SliceBound(a, Len(s))
        hi == SliceBound(b, Len(s))
    IN  IF hi <= lo THEN <<>> ELSE SubSeq(s, lo + 1, hi)

\* Rationals <<num, den>>, den > 0, kept in lowest terms.
RatNorm(q) ==
    LET g == GCD(Abs(q[1]), q[2])
    IN  IF g = 0 THEN q ELSE <<q[1] \div g, q[2] \div g>>

RatAdd(p, q) == RatNorm(<<p[1] * q[2] + q[1] * p[2], p[2] * q[2]>>)

RatDivInt(p, n) == RatNorm(<<p[1], p[2] * n>>)

RatLess(p, q) == p[1] * q[2] < q[1] * p[2]

RatEq(p, q) == p[1] * q[2] = q[1] * p[2]

RECURSIVE RatSum(_)
RatSum(s) == IF s = <<>> THEN <<0, 1>> ELSE RatAdd(Head(s), RatSum(Tail(s)))

----------------------------------------------------------------------------
(* core/sort_keys.py                                                       *)

Max3(p) == Max(Max(p[1], p[2]), p[3])

Min3(p) == Min(Min(p[1], p[2]), p[3])

\* 0.299 r + 0.587 g + 0.114 b, in thousandths.
BrightnessMilli(p) == 299 * p[1] + 587 * p[2] + 114 * p[3]

\* ComputeHue without the "% 6" of the red branch.
ComputeHueNoWrap(p) ==
    LET r == p[1]
        g == p[2]
        b == p[3]
        max_c == Max3(p)
        delta == max_c - Min3(p)
    IN  IF delta = 0 THEN <<0, 1>>
        ELSE IF max_c = b THEN RatNorm(<<60 * ((r - g) + 4 * delta), delta>>)
        ELSE IF max_c = g THEN RatNorm(<<60 * ((b - r) + 2 * delta), delta>>)
        ELSE RatNorm(<<60 * (g - b), delta>>)

\* _compute_hue for one pixel: the three masked assignments are made in the
\* order red, green, blue, so a later one overrides an earlier one.
ComputeHue(p) ==
    LET r == p[1]
        g == p[2]
        b == p[3]
        max_c == Max3(p)
        delta == max_c - Min3(p)
    IN  IF delta = 0 THEN <<0, 1>>
        ELSE IF max_c = b THEN RatNorm(<<60 * ((r - g) + 4 * delta), delta>>)
        ELSE IF max_c = g THEN RatNorm(<<60 * ((b - r) + 2 * delta), delta>>)
        ELSE RatNorm(<<60 * ((g - b) % (6 * delta)), delta>>)

ComputeSaturation(p) ==
    LET max_c == Max3(p)
    IN  IF max_c > 0 THEN RatNorm(<<max_c - Min3(p), max_c>>) ELSE <<0, 1>>

\* compute_sort_values for one pixel.
SortValue(p, key) ==
    CASE key = "brightness" -> RatNorm(<<BrightnessMilli(p), 1000>>)
      [] key = "intensity"  -> RatNorm(<<p[1] + p[2] + p[3], 3>>)
      [] key = "minimum"    -> <<Min3(p), 1>>
      [] key = "red"        -> <<p[1], 1>>
      [] key = "green"      -> <<p[2], 1>>
      [] key = "blue"       -> <<p[3], 1>>
      [] key = "hue"        -> ComputeHue(p)
      [] key = "saturation" -> ComputeSaturation(p)
      [] OTHER              -> RatNorm(<<BrightnessMilli(p), 1000>>)

compute_sort_values(pixels, key) ==
    [i \in 1..Len(pixels) |-> SortValue(pixels[i], key)]

\* The exact value of (0.299 r + 0.587 g + 0.114 b) / 255, as the numerators
\* over the common denominator 255000.
ExactBrightness(pixels) ==
    [i \in 1..Len(pixels) |-> BrightnessMilli(pixels[i])]

\* Single precision (float32).  A value >= 0 is [m, e], standing for
\* m * 2^e, with m = 0 or 2^23 <= m < 2^24.  Every operation rounds its
\* exact result to the nearest such value, ties to the even mantissa.
F32Zero == [m |-> 0, e |-> 0]

F32One == [m |-> 2^23, e |-> -23]

\* (m0 + num/den) * 2^e rounded, for 2^23 <= m0 < 2^24 and 0 <= num < den.
F32Round(m0, num, den, e) ==
    LET up == (2 * num > den) \/ (2 * num = den /\ m0 % 2 = 1)
        m1 == IF up THEN m0 + 1 ELSE m0
    IN  IF m1 = 2^24 THEN [m |-> 2^23, e |-> e + 1] ELSE [m |-> m1, e |-> e]

\* The number of binary digits of x > 0.
BitLen(x) == CHOOSE k \in 1..31 : 2^(k - 1) <= x /\ (k = 31 \/ x < 2^k)

\* c * n for a float32 c > 0 and an integer 0 <= n <= 255 (a uint8 channel
\* after astype(np.float32)).  The product is kept as hi * 2^12 + lo.
F32Mul(c, n) ==
    IF n = 0 THEN F32Zero
    ELSE
        LET h  == c.m \div 4096
            l  == c.m % 4096
            hi == h * n + ((l * n) \div 4096)
            lo == (l * n) % 4096
            s  == BitLen(hi) - 12
        IN  F32Round(hi * 2^(12 - s) + (lo \div 2^s), lo % 2^s, 2^s, c.e + s)

\* a + b
F32Add(a, b) ==
    IF a.m = 0 THEN b
    ELSE IF b.m = 0 THEN a
    ELSE
        LET big   == IF a.e >= b.e THEN a ELSE b
            small == IF a.e >= b.e THEN b ELSE a
            d     == big.e - small.e
            q     == IF d >= 24 THEN 0 ELSE small.m \div 2^d
            r     == IF d >= 24 THEN 1 ELSE small.m % 2^d
            den   == IF d >= 24 THEN 4 ELSE 2^d
            sum   == big.m + q
        IN  IF sum < 2^24 THEN F32Round(sum, r, den, big.e)
            ELSE F32Round(sum \div 2, (sum % 2) * den + r, 2 * den, big.e + 1)

\* a / 255.0
F32Div255(a) ==
    IF a.m = 0 THEN F32Zero
    ELSE
        LET q0 == a.m \div 255
            r0 == a.m % 255
            q  == q0 * 256 + ((r0 * 256) \div 255)
            r  == (r0 * 256) % 255
        IN  IF q < 2^24 THEN F32Round(q, r, 255, a.e - 8)
            ELSE F32Round(q \div 2, (q % 2) * 255 + r, 510, a.e - 7)

\* The float32 nearest to num / den, for 0 <= num <= den: binary digits are
\* taken one at a time until the mantissa is full.
RECURSIVE F32Digits(_, _, _, _)
F32Digits(m, x, den, e) ==
    IF m >= 2^23 THEN F32Round(m, x, den, e)
    ELSE F32Digits(2 * m + (IF 2 * x >= den THEN 1 ELSE 0),
                   IF 2 * x >= den THEN 2 * x - den ELSE 2 * x, den, e - 1)

F32FromRatio(num, den) ==
    IF num = 0 THEN F32Zero
    ELSE IF num = den THEN F32One
    ELSE F32Digits(0, num, den, 0)

F32LessEq(a, b) ==
    \/ a.m = 0
    \/ b.m > 0 /\ (a.e < b.e \/ (a.e = b.e /\ a.m <= b.m))

\* The float32 values of the Python constants 0.299, 0.587 and 0.114.
Weight299 == [m |-> 10032775, e |-> -25]

Weight587 == [m |-> 9848226, e |-> -24]

Weight114 == [m |-> 15300821, e |-> -27]

\* (0.299 * r + 0.587 * g + 0.114 * b) / 255.0 on float32 channels, for one
\* pixel.
BrightnessF32(p) ==
    F32Div255(F32Add(F32Add(F32Mul(Weight299, p[1]), F32Mul(Weight587, p[2])),
                     F32Mul(Weight114, p[3])))

\* compute_brightness
compute_brightness(pixels) ==
    [i \in 1..Len(pixels) |-> BrightnessF32(pixels[i])]

----------------------------------------------------------------------------
(* core/span_detector.py                                                   *)

\* _mask_to_spans: the runs of TRUE of a boolean sequence, found on the
\* differences of the sequence padded with FALSE at both ends.
MaskToSpans(mask) ==
    IF Len(mask) = 0 THEN <<>>
    ELSE
        LET padded == <<FALSE>> \o mask \o <<FALSE>>
            int(b) == IF b THEN 1 ELSE 0
            diff   == [k \in 1..(Len(mask) + 1) |-> int(padded[k + 1]) - int(padded[k])]
            starts == Where([k \in 1..Len(diff) |-> diff[k] = 1])
            ends   == Where([k \in 1..Len(diff) |-> diff[k] = -1])
        IN  [i \in 1..Min(Len(starts), Len(ends)) |-> <<starts[i] - 1, ends[i] - 1>>]

\* ThresholdSpans with brightness < upper in place of brightness <= upper.
ThresholdSpansStrict(pixels, lower, upper) ==
    LET brightness == compute_brightness(pixels)
        lo   == F32FromRatio(lower, 100)
        hi   == F32FromRatio(upper, 100)
        mask == [i \in 1..Len(pixels) |->
                    /\ F32LessEq(lo, brightness[i])
                    /\ ~F32LessEq(hi, brightness[i])]
    IN  MaskToSpans(mask)

\* _threshold_spans.  The thresholds are given in hundredths; they are
\* Python floats, which the comparison with a float32 array takes as float32.
ThresholdSpans(pixels, lower, upper) ==
    LET brightness == compute_brightness(pixels)
        lo   == F32FromRatio(lower, 100)
        hi   == F32FromRatio(upper, 100)
        mask == [i \in 1..Len(pixels) |->
                    /\ F32LessEq(lo, brightness[i])
                    /\ F32LessEq(brightness[i], hi)]
    IN  MaskToSpans(mask)

RandLenMin == 10

RandGapMax == 20

\* _random_spans from position i: every list of spans the draws can give.
\* rng.integers(lo, hi) is uniform on lo .. hi-1.
RECURSIVE RandomSpansFrom(_, _)
RandomSpansFrom(i, n) ==
    IF i >= n THEN {<<>>}
    ELSE UNION {
            UNION {
                {<<<<i, Min(i + length, n)>>>> \o rest :
                    rest \in RandomSpansFrom(Min(i + length, n) + gap, n)} :
                gap \in 1..(Max(2, RandGapMax) - 1)} :
            length \in RandLenMin..(Max(RandLenMin + 1, n \div 4) - 1)}

RandomSpans(n) == RandomSpansFrom(0, n)

\* _edge_spans.  edges > mean(edges) + std(edges), with std the population
\* standard deviation, is decided exactly on integers: for m edges of sum S,
\*   e > mean + std  <=>  m e > S  /\  m (m e - S)^2 > Sum_k (m e_k - S)^2.
\* The test is homogeneous in the edges, which are first divided by their
\* greatest common divisor to keep the squares small.
RECURSIVE GCDSeq(_)
GCDSeq(s) == IF s = <<>> THEN 0 ELSE GCD(Head(s), GCDSeq(Tail(s)))

EdgeSpans(pixels) ==
    LET brightness == ExactBrightness(pixels)
        n == Len(brightness)
    IN  IF n < 2 THEN << <<0, n>> >>
        ELSE
            LET raw   == [i \in 1..(n - 1) |-> Abs(brightness[i + 1] - brightness[i])]
                g     == GCDSeq(raw)
                edges == [i \in 1..(n - 1) |-> IF g = 0 THEN 0 ELSE raw[i] \div g]
                m     == n - 1
                S     == SumSeq(edges)
                dev   == [i \in 1..m |-> m * edges[i] - S]
                devsq == SumSeq([i \in 1..m |-> dev[i] * dev[i]])
                edge_mask == [i \in 1..m |-> dev[i] > 0 /\ m * dev[i] * dev[i] > devsq]
                \* np.where(edge_mask)[0] + 1 in 0-based terms is Where() here
                positions == <<0>> \o Where(edge_mask) \o <<n>>
                pairs == [i \in 1..(Len(positions) - 1) |-> <<positions[i], positions[i + 1]>>]
                NonEmpty(sp) == sp[2] > sp[1]
            IN  SelectSeq(pairs, NonEmpty)

\* sin(0.5 k) in millionths (rounded down), k = 0, 1, ...: the phases of
\* _wave_spans.
SinMicro ==
    <<0, 479425, 841470, 997494, 909297, 598472, 141120, -350784,
      -756803, -977531, -958925, -705541, -279416, 215119, 656986, 937999,
      989358, 798487, 412118, -75152, -544022, -879696, -999991, -875453,
      -536573, -66322, 420167, 803784, 990607, 934895, 650287, 206467>>

WaveLenMin == 10

\* int(wave_len * (0.5 + 0.5 * sin(phase))) at the k-th phase.
WaveLength(wave_len, k) ==
    (wave_len * (1000000 + SinMicro[k + 1])) \div 2000000

RECURSIVE WaveSpansFrom(_, _, _, _)
WaveSpansFrom(i, k, wave_len, n) ==
    IF i >= n THEN <<>>
    ELSE
        LET length == Max(2, WaveLength(wave_len, k))
            end    == Min(i + length, n)
        IN  <<<<i, end>>>> \o WaveSpansFrom(end, k + 1, wave_len, n)

WaveSpans(n) == WaveSpansFrom(0, 0, Max(WaveLenMin, n \div 8), n)

\* CapSpan that drops a last sub-span shorter than span_max.
RECURSIVE CapSpanDropTail(_, _, _)
CapSpanDropTail(s, e, span_max) ==
    IF s + span_max > e THEN <<>>
    ELSE <<<<s, s + span_max>>>> \o CapSpanDropTail(s + span_max, e, span_max)

\* CapSpan without the min against the end of the span.
RECURSIVE CapSpanPastEnd(_, _, _)
CapSpanPastEnd(s, e, span_max) ==
    IF s >= e THEN <<>>
    ELSE <<<<s, s + span_max>>>> \o CapSpanPastEnd(s + span_max, e, span_max)

\* The "cap by max length" loop of detect_spans for one span (s, e).
RECURSIVE CapSpan(_, _, _)
CapSpan(s, e, span_max) ==
    IF s >= e THEN <<>>
    ELSE <<<<s, Min(s + span_max, e)>>>> \o CapSpan(Min(s + span_max, e), e, span_max)

RECURSIVE CapSpans(_, _)
CapSpans(spans, span_max) ==
    IF spans = <<>> THEN <<>>
    ELSE CapSpan(Head(spans)[1], Head(spans)[2], span_max)
            \o CapSpans(Tail(spans), span_max)

\* The post-processing of detect_spans: the min-length filter, then the cap.
\* (`spans = capped` sits inside the for loop of the source; the loop runs
\* over the list it started with, so the outcome is the capped list.)
PostProcess(spans, span_min, span_max) ==
    LET LongEnough(sp) == (sp[2] - sp[1]) >= span_min
        kept == IF span_min > 1 THEN SelectSeq(spans, LongEnough) ELSE spans
    IN  IF span_max > 0 THEN CapSpans(kept, span_max) ELSE kept

\* The spans of the interval mode before post-processing: a set, of one
\* list except in random mode.
ModeSpans(pixels, mode, lower, upper) ==
    LET n == Len(pixels)
    IN  CASE mode = "none"      -> {<< <<0, n>> >>}
          [] mode = "threshold" -> {ThresholdSpans(pixels, lower, upper)}
          [] mode = "random"    -> RandomSpans(n)
          [] mode = "edges"     -> {EdgeSpans(pixels)}
          [] mode = "waves"     -> {WaveSpans(n)}
          [] OTHER              -> {<< <<0, n>> >>}

\* The runs of detect_spans: the spans of the mode (detected) and the list
\* returned (spans), for every outcome of the draws.
DetectSteps(pixels, mode, lower, upper, span_min, span_max) ==
    IF Len(pixels) = 0 THEN {[detected |-> <<>>, spans |-> <<>>]}
    ELSE {[detected |-> spans, spans |-> PostProcess(spans, span_min, span_max)] :
            spans \in ModeSpans(pixels, mode, lower, upper)}

\* detect_spans: the set of span lists the call can return.
detect_spans(pixels, mode, lower, upper, span_min, span_max) ==
    {o.spans : o \in DetectSteps(pixels, mode, lower, upper, span_min, span_max)}

----------------------------------------------------------------------------
(* core/sorting_engine.py: the line sorter                                 *)

\* The rules by which argsort may order two equal keys at positions i and j
\* (numpy's default kind, quicksort, promises no order among equal keys).
TieBreaks == {"stable", "reversed"}

TieBefore(rule, i, j) ==
    CASE rule = "stable"      -> i < j
      [] rule = "reversed"    -> i > j

\* ArgSort that leaves the positions in the order they came in.
ArgSortIdentity(values, rule) == [k \in 1..Len(values) |-> k]

\* np.argsort(values): the permutation (1-based) that lists the positions
\* by ascending value, equal values in the order the rule gives.
ArgSort(values, rule) ==
    LET n == Len(values)
        Before(i, j) ==
            \/ RatLess(values[i], values[j])
            \/ RatEq(values[i], values[j]) /\ TieBefore(rule, i, j)
        rank == [i \in 1..n |-> Cardinality({j \in 1..n : Before(j, i)})]
    IN  [k \in 1..n |-> CHOOSE i \in 1..n : rank[i] = k - 1]

\* s[order] of numpy: the elements of s taken at the positions of order.
Take(s, order) == [k \in 1..Len(order) |-> s[order[k]]]

\* The loop of _apply_jitter from step i (0-based) on: every array the
\* draws can give.  Step i writes result[i], result[j] = src[j], src[i],
\* with j = clamp(i + offset) and src the array as it was BEFORE the loop.
RECURSIVE JitterFrom(_, _, _, _)
JitterFrom(src, jitter, i, result) ==
    LET n == Len(src)
    IN  IF i >= n THEN {result}
        ELSE UNION {
                JitterFrom(src, jitter, i + 1,
                           [result EXCEPT ![i + 1] = src[j + 1], ![j + 1] = src[i + 1]]) :
                j \in {Max(0, Min(n - 1, i + offset)) : offset \in (-jitter)..jitter}}

_apply_jitter(pixels, jitter) == JitterFrom(pixels, jitter, 0, pixels)

\* SortSpan with the sorted pixels written back side by side from the start
\* of the span, not at the positions the mask selected.
SortSpanPacked(pixels, params, hasMask, mask, span, result, rule) ==
    LET start == span[1]
        end   == span[2]
        sub   == Slice(pixels, start, end)
        span_mask == IF hasMask THEN Slice(mask, start, end) ELSE <<>>
        masked_indices ==
            IF hasMask THEN Where(span_mask) ELSE [i \in 1..Len(sub) |-> i]
        span_pixels == Take(sub, masked_indices)
        values  == compute_sort_values(span_pixels, params.sort_key)
        sorted0 == ArgSort(values, rule)
        order   == IF params.reverse THEN Reverse(sorted0) ELSE sorted0
        sorted_pixels == Take(span_pixels, order)
        outcomes == IF params.jitter > 0
                    THEN _apply_jitter(sorted_pixels, params.jitter)
                    ELSE {sorted_pixels}
        Written(sp) ==
            [q \in 1..Len(result) |->
                IF q > start /\ q <= start + Len(sp) THEN sp[q - start] ELSE result[q]]
    IN  IF hasMask /\ ~(\E i \in 1..Len(span_mask) : span_mask[i]) THEN {result}
        ELSE IF Len(span_pixels) < 2 THEN {result}
        ELSE {Written(sp) : sp \in outcomes}

\* One iteration of the span loop of _sort_line: the set of values of
\* `result` after the span (start, end) has been handled.
SortSpan(pixels, params, hasMask, mask, span, result, rule) ==
    LET start == span[1]
        end   == span[2]
        sub   == Slice(pixels, start, end)
        span_mask == IF hasMask THEN Slice(mask, start, end) ELSE <<>>
        masked_indices ==
            IF hasMask THEN Where(span_mask) ELSE [i \in 1..Len(sub) |-> i]
        span_pixels == Take(sub, masked_indices)
        values  == compute_sort_values(span_pixels, params.sort_key)
        sorted0 == ArgSort(values, rule)
        order   == IF params.reverse THEN Reverse(sorted0) ELSE sorted0
        sorted_pixels == Take(span_pixels, order)
        outcomes == IF params.jitter > 0
                    THEN _apply_jitter(sorted_pixels, params.jitter)
                    ELSE {sorted_pixels}
        Written(sp) ==
            [q \in 1..Len(result) |->
                IF \E i \in 1..Len(masked_indices) : start + masked_indices[i] = q
                THEN sp[CHOOSE i \in 1..Len(masked_indices) : start + masked_indices[i] = q]
                ELSE result[q]]
    IN  IF hasMask /\ ~(\E i \in 1..Len(span_mask) : span_mask[i]) THEN {result}
        ELSE IF Len(span_pixels) < 2 THEN {result}
        ELSE {Written(sp) : sp \in outcomes}

\* The key of a group: the mean of the key values of its pixels.
GroupKey(group, key) ==
    RatDivInt(RatSum(compute_sort_values(group, key)), Len(group))

\* The representative pixel of a group: g.mean(axis=0).astype(np.uint8).
RepPixel(group) ==
    [c \in 1..3 |-> SumSeq([i \in 1..Len(group) |-> group[i][c]]) \div Len(group)]

\* One iteration of the span loop of _sort_line_blocked.
SortGroupSpan(pixels, params, hasMask, mask, span, result, rule) ==
    LET bs == params.pixel_size
        span_start == span[1]
        span_end   == span[2]
        groups == [g \in 1..(Len(pixels) \div bs) |->
                      Slice(pixels, (g - 1) * bs, (g - 1) * bs + bs)]
        group_keys == [g \in 1..Len(groups) |-> GroupKey(groups[g], params.sort_key)]
        covered == IF hasMask THEN Slice(mask, span_start * bs, span_end * bs) ELSE <<>>
        span_keys == Slice(group_keys, span_start, span_end)
        sorted0 == ArgSort(span_keys, rule)
        order0  == IF params.reverse THEN Reverse(sorted0) ELSE sorted0
        jitter_groups == Max(1, params.jitter \div bs)
        orders  == IF params.jitter > 0
                   THEN JitterFrom(order0, jitter_groups, 0, order0)
                   ELSE {order0}
        \* result[dst : dst + bs] = groups[span_start + idx], for each i
        Written(order) ==
            [q \in 1..Len(result) |->
                LET g == (q - 1) \div bs
                IN  IF g >= span_start /\ g < span_start + Len(order)
                    THEN groups[span_start + order[g - span_start + 1]][((q - 1) % bs) + 1]
                    ELSE result[q]]
    IN  IF hasMask /\ ~(\E i \in 1..Len(covered) : covered[i]) THEN {result}
        ELSE IF Len(span_keys) < 2 THEN {result}
        ELSE {Written(order) : order \in orders}

\* The span loop of either path: the spans are handled in order, each on
\* the result of the one before.
RECURSIVE SpanLoop(_, _, _, _, _, _, _, _)
SpanLoop(blocked, pixels, params, hasMask, mask, spans, result, rule) ==
    IF spans = <<>> THEN {result}
    ELSE UNION {
            SpanLoop(blocked, pixels, params, hasMask, mask, Tail(spans), r, rule) :
            r \in IF blocked
                  THEN SortGroupSpan(pixels, params, hasMask, mask, Head(spans), result, rule)
                  ELSE SortSpan(pixels, params, hasMask, mask, Head(spans), result, rule)}

\* The span_max passed to the group-level detect_spans.
GroupSpanMax(span_max, bs) == IF span_max > 0 THEN span_max \div bs ELSE 0

\* _sort_line_blocked that sorts pixel by pixel, as if pixel_size were 1.
BlockedByPixel(pixels, params, hasMask, mask, rule) ==
    UNION {SpanLoop(FALSE, pixels, params, hasMask, mask, spans, pixels, rule) :
                spans \in detect_spans(pixels, params.interval_mode,
                                       params.lower_threshold, params.upper_threshold,
                                       params.span_min, params.span_max)}

\* _sort_line_blocked: the set of lines the call can return.
_sort_line_blocked(pixels, params, hasMask, mask, rule) ==
    LET bs == params.pixel_size
        n_groups == Len(pixels) \div bs
        groups == [g \in 1..n_groups |-> Slice(pixels, (g - 1) * bs, (g - 1) * bs + bs)]
        rep_pixels == [g \in 1..n_groups |-> RepPixel(groups[g])]
        spanLists == detect_spans(rep_pixels, params.interval_mode,
                                  params.lower_threshold, params.upper_threshold,
                                  Max(1, params.span_min \div bs),
                                  GroupSpanMax(params.span_max, bs))
    IN  IF n_groups < 2 THEN {pixels}
        ELSE UNION {SpanLoop(TRUE, pixels, params, hasMask, mask, spans, pixels, rule) :
                        spans \in spanLists}

\* _sort_line: the set of lines the call can return.
_sort_line(pixels, params, hasMask, mask, rule) ==
    IF Len(pixels) = 0 THEN {pixels}
    ELSE IF params.pixel_size > 1
    THEN _sort_line_blocked(pixels, params, hasMask, mask, rule)
    ELSE UNION {SpanLoop(FALSE, pixels, params, hasMask, mask, spans, pixels, rule) :
                    spans \in detect_spans(pixels, params.interval_mode,
                                           params.lower_threshold, params.upper_threshold,
                                           params.span_min, params.span_max)}

----------------------------------------------------------------------------
(* core/sorting_engine.py: the region sorter                               *)

\* The length of s[a:b] for a sequence of length n.
SliceLen(n, a, b) == Max(0, SliceBound(b, n) - SliceBound(a, n))

\* arr[y0:y1, x0:x1] of numpy.
Slice2D(arr, y0, y1, x0, x1) ==
    LET rows == Slice(arr.px, y0, y1)
    IN  [h  |-> Len(rows),
         w  |-> SliceLen(arr.w, x0, x1),
         px |-> [r \in 1..Len(rows) |-> Slice(rows[r], x0, x1)]]

\* dest[y0:y1, x0:x1] = src of numpy: src is broadcast to the shape of the
\* slice (an axis of src must have the length of the slice's axis, or 1);
\* when it cannot be, numpy raises ValueError and dest is left as it was.
SetSlice2D(dest, y0, y1, x0, x1, src) ==
    LET ylo == SliceBound(y0, dest.h)
        xlo == SliceBound(x0, dest.w)
        dh  == SliceLen(dest.h, y0, y1)
        dw  == SliceLen(dest.w, x0, x1)
        fits == (src.h = dh \/ src.h = 1) /\ (src.w = dw \/ src.w = 1)
        At(r, c) == src.px[IF src.h = 1 THEN 1 ELSE r - ylo][IF src.w = 1 THEN 1 ELSE c - xlo]
    IN  IF ~fits THEN [ok |-> FALSE, arr |-> dest]
        ELSE [ok  |-> TRUE,
              arr |-> [dest EXCEPT !.px =
                        [r \in 1..dest.h |-> [c \in 1..dest.w |->
                            IF r > ylo /\ r <= ylo + dh /\ c > xlo /\ c <= xlo + dw
                            THEN At(r, c)
                            ELSE dest.px[r][c]]]]]

\* np.rot90(arr, 1): a quarter turn counterclockwise.
Rot90(arr) ==
    [h  |-> arr.w,
     w  |-> arr.h,
     px |-> [i \in 1..arr.w |-> [j \in 1..arr.h |-> arr.px[j][arr.w + 1 - i]]]]

\* np.rot90(arr, -1): a quarter turn clockwise.
Rot90Back(arr) ==
    [h  |-> arr.w,
     w  |-> arr.h,
     px |-> [i \in 1..arr.w |-> [j \in 1..arr.h |-> arr.px[arr.h + 1 - j][i]]]]

\* The row loop of _sort_2d from row k on: every list of sorted rows.
RECURSIVE SortRows(_, _, _, _, _, _)
SortRows(work, params, hasMask, mask, k, rule) ==
    IF k > work.h THEN {<<>>}
    ELSE {<<r>> \o rest :
            r \in _sort_line(work.px[k], params, hasMask,
                             IF hasMask THEN mask.px[k] ELSE <<>>, rule),
            rest \in SortRows(work, params, hasMask, mask, k + 1, rule)}

\* _sort_2d with the turns exchanged: np.rot90(result, -1) before the row
\* loop and np.rot90(result, 1) after it, so a column is read bottom to top.
_sort_2d_clockwise(region, params, hasMask, mask, rule) ==
    LET vertical == params.direction = "vertical"
        work  == IF vertical THEN Rot90Back(region) ELSE region
        wmask == IF hasMask /\ vertical THEN Rot90Back(mask) ELSE mask
    IN  {IF vertical THEN Rot90([work EXCEPT !.px = rows])
                     ELSE [work EXCEPT !.px = rows] :
            rows \in SortRows(work, params, hasMask, wmask, 1, rule)}

\* _sort_2d: the set of regions the call can return.
_sort_2d(region, params, hasMask, mask, rule) ==
    LET vertical == params.direction = "vertical"
        work  == IF vertical THEN Rot90(region) ELSE region
        wmask == IF hasMask /\ vertical THEN Rot90(mask) ELSE mask
    IN  {IF vertical THEN Rot90Back([work EXCEPT !.px = rows])
                     ELSE [work EXCEPT !.px = rows] :
            rows \in SortRows(work, params, hasMask, wmask, 1, rule)}

\* ClampRegion without the lower bound 0 on x and y.
ClampNoLowerBound(img_h, img_w, x, y, w, h) ==
    LET whole == w = 0 \/ h = 0
        x0 == IF whole THEN 0 ELSE x
        y0 == IF whole THEN 0 ELSE y
        w0 == IF whole THEN img_w ELSE w
        h0 == IF whole THEN img_h ELSE h
        cx == Min(x0, img_w - 1)
        cy == Min(y0, img_h - 1)
    IN  [x |-> cx, y |-> cy, w |-> Min(w0, img_w - cx), h |-> Min(h0, img_h - cy)]

\* ClampRegion with the sentinel taken only when both w and h are 0.
ClampSentinelBoth(img_h, img_w, x, y, w, h) ==
    LET whole == w = 0 /\ h = 0
        x0 == IF whole THEN 0 ELSE x
        y0 == IF whole THEN 0 ELSE y
        w0 == IF whole THEN img_w ELSE w
        h0 == IF whole THEN img_h ELSE h
        cx == Max(0, Min(x0, img_w - 1))
        cy == Max(0, Min(y0, img_h - 1))
    IN  [x |-> cx, y |-> cy, w |-> Min(w0, img_w - cx), h |-> Min(h0, img_h - cy)]

\* The clamp of sort_region, with the whole-image sentinel before it.
ClampRegion(img_h, img_w, x, y, w, h) ==
    LET whole == w = 0 \/ h = 0
        x0 == IF whole THEN 0 ELSE x
        y0 == IF whole THEN 0 ELSE y
        w0 == IF whole THEN img_w ELSE w
        h0 == IF whole THEN img_h ELSE h
        cx == Max(0, Min(x0, img_w - 1))
        cy == Max(0, Min(y0, img_h - 1))
    IN  [x |-> cx, y |-> cy, w |-> Min(w0, img_w - cx), h |-> Min(h0, img_h - cy)]

\* The values a resampled pixel takes in the model: _rotate_region and
\* _unrotate_region resample with PIL (bilinear), which is not modelled.
\* Zero is what the padding of _unrotate_region writes.
ResampledPixels == {<<0, 0, 0>>, <<50, 50, 50>>}

\* _rotate_region, _sort_2d and _unrotate_region in sequence: the outcome
\* is an array of the shape (oh, ow) that _unrotate_region crops or pads
\* to, whose pixels the resampling decides.
RotatedSort(oh, ow) ==
    {[h |-> oh, w |-> ow, px |-> px] : px \in [1..oh -> [1..ow -> ResampledPixels]]}

\* np.where(mask_region, region, dest), element by element.
WhereBlend(mask_region, region, dest) ==
    [dest EXCEPT !.px =
        [r \in 1..dest.h |-> [c \in 1..dest.w |->
            IF mask_region.px[r][c] THEN region.px[r][c] ELSE dest.px[r][c]]]]

\* ArrayCopy that hands back the buffer itself: `result = image`.
ArrayAlias(hp, ref) == [heap |-> hp, ref |-> ref]

\* image.copy(): a new buffer on the heap holding the same values.
ArrayCopy(hp, ref) == [heap |-> Append(hp, hp[ref]), ref |-> Len(hp) + 1]

\* The rotation path is taken with an angle and a vertical sort alike.
TakesRotationAnyDirection(params) == params.angle # 0

\* The test of the angle branch of sort_region.
TakesRotation(params) == params.angle # 0 /\ params.direction = "horizontal"

\* sort_region(image, params, x, y, w, h, mask) on the heap hp, image and
\* mask given by reference (maskRef is read only when hasMask): the set of
\* outcomes.  An outcome is the heap after the call, whether the call
\* returned (ok) or raised, the reference returned, the region as
\* extracted and as sorted, and whether the rotation path was taken.
sort_region(hp, imageRef, params, x, y, w, h, hasMask, maskRef, rule) ==
    LET image  == hp[imageRef]
        mask   == IF hasMask THEN hp[maskRef] ELSE [h |-> 0, w |-> 0, px |-> <<>>]
        copied == ArrayCopy(hp, imageRef)
        res    == copied.ref
        c      == ClampRegion(image.h, image.w, x, y, w, h)
        dest   == copied.heap[res]
        region == Slice2D(dest, c.y, c.y + c.h, c.x, c.x + c.w)
        rotate == TakesRotation(params)
        sorteds == IF rotate THEN RotatedSort(c.h, c.w)
                   ELSE _sort_2d(region, params, hasMask, mask, rule)
        Outcome(sorted) ==
            LET put ==
                  IF rotate /\ hasMask
                  THEN SetSlice2D(dest, c.y, c.y + c.h, c.x, c.x + c.w,
                                  WhereBlend(Slice2D(mask, 0, c.h, 0, c.w), sorted, region))
                  ELSE SetSlice2D(dest, c.y, c.y + c.h, c.x, c.x + c.w,
                                  Slice2D(sorted, 0, c.h, 0, c.w))
            IN  [heap   |-> [copied.heap EXCEPT ![res] = put.arr],
                 ok     |-> put.ok,
                 ref    |-> IF put.ok THEN res ELSE 0,
                 region |-> region,
                 sorted |-> sorted,
                 rotated |-> rotate]
    IN  {Outcome(sorted) : sorted \in sorteds}

----------------------------------------------------------------------------
(* The inputs of the model                                                 *)

Black == <<0, 0, 0>>

Grey == <<100, 100, 100>>

Light == <<200, 200, 200>>

\* Orange has the red channel of Light and the green channel of Grey.
Orange == <<200, 100, 0>>

Palette == {Black, Grey, Light, Orange}

\* Pixel patterns, repeated along a line or, row after row, over an image.
Patterns ==
    {<<Orange, Light, Grey, Black>>,
     <<Black, Grey, Orange, Light, Grey>>,
     <<Light, Black, Orange>>,
     <<Orange, Light>>}

MaskPatterns == {<<TRUE, FALSE>>, <<FALSE, TRUE, TRUE>>, <<FALSE>>}

Cycle(pat, k) == pat[(k % Len(pat)) + 1]

MakeArray(h, w, pat) ==
    [h  |-> h,
     w  |-> w,
     px |-> [i \in 1..h |-> [j \in 1..w |-> Cycle(pat, (i - 1) * w + (j - 1))]]]

NoArray == [h |-> 0, w |-> 0, px |-> <<>>]

MaxH == 4

MaxW == 4

MaxArea == 8

MaxRotArea == 4

MaxWide == 13

Shapes == {s \in (1..MaxH) \X (1..MaxW) : s[1] * s[2] <= MaxArea}

DefaultParams ==
    [direction |-> "horizontal", angle |-> 0, sort_key |-> "red",
     interval_mode |-> "none", lower_threshold |-> 40, upper_threshold |-> 80,
     pixel_size |-> 1, span_min |-> 1, span_max |-> 0, jitter |-> 0,
     reverse |-> FALSE]

Directions == {"horizontal", "vertical"}

IntervalModes == {"threshold", "random", "edges", "waves", "none"}

\* (span_min, span_max)
SpanLimits == {<<1, 0>>, <<2, 3>>}

\* Deterministic parameter sets: angle 0, jitter 0.
SortParamSets ==
    {[DefaultParams EXCEPT !.direction = d, !.interval_mode = m, !.pixel_size = bs,
                           !.reverse = rv, !.span_min = sl[1], !.span_max = sl[2]] :
        d \in Directions, m \in IntervalModes, bs \in {1, 2}, rv \in BOOLEAN,
        sl \in SpanLimits}

\* Parameter sets with an angle or with jitter.
NoisyParamSets ==
    {[DefaultParams EXCEPT !.direction = d, !.angle = a, !.jitter = j, !.pixel_size = bs] :
        d \in Directions, a \in {0, 30}, j \in {0, 1}, bs \in {1, 2}}
    \ SortParamSets

\* (start, extent) along an axis of length n: the sentinel, the whole axis,
\* inner ranges, negative extents, a start before 0 with an extent past
\* the end, a start past the end.
AxisRanges(n) ==
    {<<0, 0>>, <<1, 0>>, <<0, n>>, <<1, 1>>, <<0, 2>>, <<0, -1>>, <<1, -1>>,
     <<-1, n + 2>>, <<n + 1, 1>>}

\* The mask of a call: none, or a mask of the shape of the clamped region.
MasksFor(h, w, rect) ==
    LET c == ClampRegion(h, w, rect[1], rect[2], rect[3], rect[4])
    IN  {[has |-> FALSE, arr |-> NoArray]}
        \cup {[has |-> TRUE, arr |-> MakeArray(c.h, c.w, mp)] : mp \in MaskPatterns}

CallArgs(image, params, rect, mask) ==
    [image |-> image, params |-> params, x |-> rect[1], y |-> rect[2],
     w |-> rect[3], h |-> rect[4], hasMask |-> mask.has, mask |-> mask.arr]

NoMask == [has |-> FALSE, arr |-> NoArray]

\* The calls of sort_region the model makes, as predicates of the call.
\* Every deterministic parameter set on the whole image, with every mask.
WholeImageCall(a) ==
    \E s \in Shapes, pat \in Patterns, p \in SortParamSets :
        \E m \in MasksFor(s[1], s[2], <<0, 0, 0, 0>>) :
            a = CallArgs(MakeArray(s[1], s[2], pat), p, <<0, 0, 0, 0>>, m)

\* Rectangles inside the image (up to the clamp), with every mask.
InnerRectCall(a) ==
    \E s \in Shapes, pat \in Patterns, rect \in {<<1, 0, 2, 1>>, <<0, 1, 3, 5>>},
       p \in {q \in SortParamSets : q.span_max = 0} :
        \E m \in MasksFor(s[1], s[2], rect) :
            a = CallArgs(MakeArray(s[1], s[2], pat), p, rect, m)

\* Every rectangle, without a mask.
AnyRectCall(a) ==
    \E s \in Shapes, pat \in Patterns,
       p \in {q \in SortParamSets :
                /\ q.interval_mode \in {"none", "threshold"}
                /\ q.pixel_size = 1 /\ q.span_max = 0 /\ ~q.reverse} :
        \E xr \in AxisRanges(s[2]), yr \in AxisRanges(s[1]) :
            a = CallArgs(MakeArray(s[1], s[2], pat), p,
                         <<xr[1], yr[1], xr[2], yr[2]>>, NoMask)

\* An angle or jitter, on small images.
NoisyCall(a) ==
    \E s \in {t \in Shapes : t[1] * t[2] <= MaxRotArea}, pat \in Patterns,
       p \in NoisyParamSets, rect \in {<<0, 0, 0, 0>>, <<1, 0, 1, 1>>} :
        \E m \in {k \in MasksFor(s[1], s[2], rect) :
                    ~k.has \/ k.arr = MakeArray(k.arr.h, k.arr.w, <<TRUE, FALSE>>)} :
            a = CallArgs(MakeArray(s[1], s[2], pat), p, rect, m)

\* Long single and double lines, on which random mode and waves give more
\* than one span.
WideCall(a) ==
    \E n \in (RandLenMin + 2)..MaxWide, pat \in Patterns,
       p \in {q \in SortParamSets : q.interval_mode \in {"random", "waves", "edges"}} :
        \E s \in {<<1, n>>, <<n, 1>>, <<2, n>>} :
            \E m \in MasksFor(s[1], s[2], <<0, 0, 0, 0>>) :
                a = CallArgs(MakeArray(s[1], s[2], pat), p, <<0, 0, 0, 0>>, m)

\* Vertical sorts with an angle, every deterministic parameter set, with
\* every mask.
AngledVerticalCall(a) ==
    \E s \in Shapes, pat \in Patterns, ang \in {30, 90},
       p \in {q \in SortParamSets : q.direction = "vertical"},
       rect \in {<<0, 0, 0, 0>>, <<1, 0, 2, 3>>} :
        \E m \in MasksFor(s[1], s[2], rect) :
            a = CallArgs(MakeArray(s[1], s[2], pat), [p EXCEPT !.angle = ang], rect, m)

----------------------------------------------------------------------------
(* The specification of sort_region: one call on a heap that holds the     *)
(* caller's image (reference 1) and mask (reference 2).                    *)

ImageRef == 1

MaskRef == 2

Init ==
    /\ pc = "init"
    /\ \/ WholeImageCall(args)
       \/ InnerRectCall(args)
       \/ AnyRectCall(args)
       \/ NoisyCall(args)
       \/ WideCall(args)
       \/ AngledVerticalCall(args)
    /\ heap = <<args.image, args.mask>>
    /\ ret = [ok |-> FALSE, ref |-> 0]
    /\ trace = [region |-> NoArray, sorted |-> NoArray]
    /\ line = <<>>
    /\ lineOut = <<>>
    /\ tb \in TieBreaks

SortRegion ==
    /\ pc = "init"
    /\ \E out \in sort_region(heap, ImageRef, args.params, args.x, args.y, args.w,
                              args.h, args.hasMask, MaskRef, tb) :
            /\ heap' = out.heap
            /\ ret' = [ok |-> out.ok, ref |-> out.ref]
            /\ trace' = [region |-> out.region, sorted |-> out.sorted,
                         rotated |-> out.rotated]
    /\ pc' = "done"
    /\ UNCHANGED <<args, line, lineOut, tb>>

Next == SortRegion

Spec == Init /\ [][Next]_vars

----------------------------------------------------------------------------
(* Properties of sort_region                                               *)

Done == pc = "done"

\* The image the call returned (read only when ret.ok).
Returned == heap[ret.ref]

\* The clamped rectangle of the call.
Clamped == ClampRegion(args.image.h, args.image.w, args.x, args.y, args.w, args.h)

CountIn(s, v) == Cardinality({i \in 1..Len(s) : s[i] = v})

SameBag(s, t) ==
    /\ Len(s) = Len(t)
    /\ \A v \in {s[i] : i \in 1..Len(s)} \cup {t[i] : i \in 1..Len(t)} :
            CountIn(s, v) = CountIn(t, v)

Column(arr, j) == [i \in 1..arr.h |-> arr.px[i][j]]

\* The lines of an array that a sort in the direction d works on.
LinesOf(arr, d) ==
    IF d = "vertical" THEN [j \in 1..arr.w |-> Column(arr, j)] ELSE arr.px

\* The images sort_region can return for a call on a heap of its own.
ResultImages(image, params, x, y, w, h, hasMask, mask, rule) ==
    {o.heap[o.ref] :
        o \in {q \in sort_region(<<image, mask>>, ImageRef, params, x, y, w, h,
                                 hasMask, MaskRef, rule) : q.ok}}

\* C1: with angle 0 and jitter 0, every line of the sorted region holds the
\* same multiset of pixels as the line of the extracted region it came from
\* (rows for a horizontal sort, columns for a vertical one); and for a
\* rectangle of non-negative extent the same holds of every line of the
\* returned image against the input image.
C1_Permutation ==
    (Done /\ args.params.angle = 0 /\ args.params.jitter = 0) =>
        LET d == args.params.direction
            before == LinesOf(trace.region, d)
            after  == LinesOf(trace.sorted, d)
        IN  /\ trace.sorted.h = trace.region.h
            /\ trace.sorted.w = trace.region.w
            /\ \A k \in 1..Len(before) : SameBag(before[k], after[k])
            /\ (args.w >= 0 /\ args.h >= 0) =>
                    /\ ret.ok
                    /\ \A k \in 1..Len(LinesOf(args.image, d)) :
                            SameBag(LinesOf(args.image, d)[k], LinesOf(Returned, d)[k])

\* A vertical blocked sort under a mask that moved pixels.
C1_Witness ==
    /\ Done
    /\ args.params.angle = 0 /\ args.params.jitter = 0
    /\ args.params.direction = "vertical" /\ args.params.pixel_size = 2
    /\ args.params.reverse /\ args.hasMask
    /\ trace.sorted # trace.region

\* C2 (as claimed): wherever the mask is FALSE the returned image holds the
\* input pixel, for every parameter set.
C2_MaskExclusive ==
    (Done /\ ret.ok /\ args.hasMask) =>
        \A r \in 1..args.mask.h, c \in 1..args.mask.w :
            ~args.mask.px[r][c] =>
                Returned.px[Clamped.y + r][Clamped.x + c]
                    = args.image.px[Clamped.y + r][Clamped.x + c]

\* C3: the call leaves the caller's image and mask buffers as they were, and
\* the image it returns is another buffer.
C3_InputUntouched ==
    Done =>
        /\ heap[ImageRef] = args.image
        /\ heap[MaskRef] = args.mask
        /\ ret.ok => ret.ref \notin {ImageRef, MaskRef}

\* A call under a mask that returned an image different from its input.
C3_Witness ==
    /\ Done /\ ret.ok /\ args.hasMask
    /\ Returned # args.image

\* C4 (as claimed): every pixel of the returned image outside the clamped
\* rectangle [x, x+w) x [y, y+h) is the input pixel.
C4_OutsideUntouched ==
    (Done /\ ret.ok) =>
        \A r \in 1..args.image.h, c \in 1..args.image.w :
            ~(/\ r > Clamped.y /\ r <= Clamped.y + Clamped.h
              /\ c > Clamped.x /\ c <= Clamped.x + Clamped.w) =>
                Returned.px[r][c] = args.image.px[r][c]

\* C5 (as claimed): without a mask the call returns, for every rectangle,
\* an image of the shape of the input.
C5_NeverRaises ==
    (Done /\ ~args.hasMask) =>
        /\ ret.ok
        /\ Returned.h = args.image.h
        /\ Returned.w = args.image.w

\* C6: the clamped rectangle always satisfies 0 <= x < W, 0 <= y < H,
\* w <= W - x and h <= H - y; and a call whose rectangle covers the image
\* returns, acts on the whole image, and returns an image the whole-image
\* call (0, 0, 0, 0) returns.
C6_BoundsClamp ==
    Done =>
        /\ 0 <= Clamped.x /\ Clamped.x < args.image.w
        /\ 0 <= Clamped.y /\ Clamped.y < args.image.h
        /\ Clamped.w <= args.image.w - Clamped.x
        /\ Clamped.h <= args.image.h - Clamped.y
        /\ (/\ args.x <= 0 /\ args.y <= 0
            /\ args.w >= args.image.w /\ args.h >= args.image.h) =>
                /\ ret.ok
                /\ trace.region = args.image
                /\ Returned \in ResultImages(args.image, args.params, 0, 0, 0, 0,
                                             args.hasMask, args.mask, tb)

\* A call from (-1, -1) with extents past the image that moved pixels.
C6_Witness ==
    /\ Done /\ ret.ok
    /\ args.x < 0 /\ args.y < 0
    /\ args.w > args.image.w /\ args.h > args.image.h
    /\ Returned # args.image

\* C7: when w = 0 or h = 0 the call returns an image that the call with
\* (x, y, w, h) = (0, 0, W, H) returns, whatever x, y and the other extent.
C7_WholeImageSentinel ==
    (Done /\ (args.w = 0 \/ args.h = 0)) =>
        /\ ret.ok
        /\ trace.region = args.image
        /\ Returned \in ResultImages(args.image, args.params, 0, 0,
                                     args.image.w, args.image.h,
                                     args.hasMask, args.mask, tb)

\* A call with w = 0, x > 0 and a negative h that moved pixels.
C7_Witness ==
    /\ Done /\ ret.ok
    /\ args.w = 0 /\ args.x > 0 /\ args.h < 0
    /\ Returned # args.image

----------------------------------------------------------------------------
(* The specification of _sort_line: one call on a line, then a second call *)
(* on the line it returned with the reverse flag flipped.                  *)

MakeLine(pat, n) == [i \in 1..n |-> Cycle(pat, i - 1)]

\* Every element of a pattern k times in a row.
Stretch(pat, k) == [i \in 1..(Len(pat) * k) |-> pat[((i - 1) \div k) + 1]]

LinePatterns ==
    Patterns \cup {<<Black, Grey, Orange, Light>>,
                   <<Black, Grey, Light, Orange>>,
                   <<Grey, Black, Light, Orange>>}

MaxLineLen == 13

MaxRepeat == 3

MaxJitterLen == 4

MaxCapLen == 7

LineMasks(n) ==
    {[has |-> FALSE, arr |-> <<>>]}
    \cup {[has |-> TRUE, arr |-> MakeLine(mp, n)] : mp \in MaskPatterns}

\* (Groups of three are left out of edges mode: the brightness of their mean
\* pixels has no small common divisor for the exact edge test.)
LineParamSets ==
    {p \in {[DefaultParams EXCEPT !.interval_mode = m, !.pixel_size = bs,
                                  !.reverse = rv, !.sort_key = k,
                                  !.span_min = sl[1], !.span_max = sl[2]] :
                m \in IntervalModes, bs \in {1, 2, 3}, rv \in BOOLEAN,
                k \in {"red", "brightness"}, sl \in SpanLimits} :
        ~(p.pixel_size = 3 /\ p.interval_mode = "edges")}

JitterParamSets ==
    {[DefaultParams EXCEPT !.jitter = j, !.pixel_size = bs, !.reverse = rv] :
        j \in {1, 2}, bs \in {1, 2}, rv \in BOOLEAN}

LineArgs(pixels, params, mask) ==
    [pixels |-> pixels, params |-> params, hasMask |-> mask.has, mask |-> mask.arr]

\* The lines the model sorts, as predicates of the call.
PatternLine(l) ==
    \E pat \in LinePatterns, n \in 0..MaxLineLen, p \in LineParamSets :
        \E m \in LineMasks(n) :
            l = LineArgs(MakeLine(pat, n), p, m)

StretchedLine(l) ==
    \E pat \in LinePatterns, k \in 2..MaxRepeat,
       p \in {q \in LineParamSets : q.span_max = 0} :
        \E m \in LineMasks(Len(pat) * k) :
            l = LineArgs(Stretch(pat, k), p, m)

JitterLine(l) ==
    \E pat \in LinePatterns, n \in 1..MaxJitterLen, p \in JitterParamSets :
        \E m \in LineMasks(n) :
            l = LineArgs(MakeLine(pat, n), p, m)

\* Lines of whole groups sorted with a span_max below the pixel_size.
SmallCapLine(l) ==
    \E pat \in LinePatterns, n \in 4..MaxCapLen, rv \in BOOLEAN,
       m \in {"none", "threshold"}, bs \in {2, 3} :
        \E mk \in LineMasks(n) :
            l = LineArgs(MakeLine(pat, n),
                         [DefaultParams EXCEPT !.pixel_size = bs, !.span_max = bs - 1,
                                               !.interval_mode = m, !.reverse = rv],
                         mk)

LineInit ==
    /\ pc = "line"
    /\ \/ PatternLine(line)
       \/ StretchedLine(line)
       \/ JitterLine(line)
       \/ SmallCapLine(line)
    /\ lineOut = <<>>
    /\ tb \in TieBreaks
    /\ args = <<>>
    /\ heap = <<>>
    /\ ret = [ok |-> FALSE, ref |-> 0]
    /\ trace = [region |-> NoArray, sorted |-> NoArray]

\* _sort_line(pixels, params, mask)
SortLine ==
    /\ pc = "line"
    /\ \E out \in _sort_line(line.pixels, line.params, line.hasMask, line.mask, tb) :
            lineOut' = <<out>>
    /\ pc' = "sorted"
    /\ UNCHANGED <<heap, args, ret, trace, line, tb>>

\* _sort_line on the line the first call returned, reverse flipped and
\* every other parameter and the mask as before.
SortLineReversed ==
    /\ pc = "sorted"
    /\ \E out \in _sort_line(lineOut[1], [line.params EXCEPT !.reverse = ~@],
                             line.hasMask, line.mask, tb) :
            lineOut' = Append(lineOut, out)
    /\ pc' = "resorted"
    /\ UNCHANGED <<heap, args, ret, trace, line, tb>>

LineNext == SortLine \/ SortLineReversed

SpecLine == LineInit /\ [][LineNext]_vars

----------------------------------------------------------------------------
(* Properties of _sort_line                                                *)

LineSorted == pc \in {"sorted", "resorted"}

LineResorted == pc = "resorted"

KeysOf(pixels, key) == compute_sort_values(pixels, key)

NonDecreasing(keys) ==
    \A i \in 1..(Len(keys) - 1) : ~RatLess(keys[i + 1], keys[i])

StrictlyDecreasing(keys) ==
    \A i \in 1..(Len(keys) - 1) : RatLess(keys[i + 1], keys[i])

PairwiseDistinct(keys) ==
    \A i, j \in 1..Len(keys) : i # j => ~RatEq(keys[i], keys[j])

\* The spans of the line in a mode without random draws.
LineSpans ==
    CHOOSE spans \in detect_spans(line.pixels, line.params.interval_mode,
                                  line.params.lower_threshold,
                                  line.params.upper_threshold,
                                  line.params.span_min, line.params.span_max) : TRUE

\* The positions (1-based, ascending) of span sp that the mask includes.
Included(sp) ==
    LET all == [k \in 1..(sp[2] - sp[1]) |-> sp[1] + k]
        In(q) == ~line.hasMask \/ line.mask[q]
    IN  SelectSeq(all, In)

\* C8 (as claimed): with interval mode none, reverse off, jitter 0 and
\* pixel_size 1, a line whose keys are non-decreasing comes back as it was,
\* ties between different pixels included.
C8_SortedLineUnchanged ==
    (/\ LineSorted
     /\ ~line.hasMask
     /\ line.params.interval_mode = "none" /\ ~line.params.reverse
     /\ line.params.jitter = 0 /\ line.params.pixel_size = 1
     /\ NonDecreasing(KeysOf(line.pixels, line.params.sort_key))) =>
        lineOut[1] = line.pixels

\* C9 (as claimed): for a span with pairwise distinct keys, with jitter 0,
\* sorting and then reverse-sorting gives back the original ordering of the
\* span.
C9_ReverseInvolution ==
    (/\ LineResorted
     /\ ~line.params.reverse /\ line.params.jitter = 0
     /\ line.params.pixel_size = 1
     /\ line.params.interval_mode \in {"none", "threshold"}) =>
        \A k \in 1..Len(LineSpans) :
            LET idx == Included(LineSpans[k])
            IN  PairwiseDistinct(KeysOf(Take(line.pixels, idx), line.params.sort_key)) =>
                    Take(lineOut[2], idx) = Take(line.pixels, idx)

\* C9 (amended): for a span with pairwise distinct keys, with jitter 0,
\* the sort puts the included pixels of the span in ascending key order and
\* the reverse-sort of the result puts them in the exact opposite order
\* (descending keys); that is the original ordering of the span exactly
\* when the span was in descending key order to begin with.
C9_ReverseSortReverses ==
    (/\ LineResorted
     /\ ~line.params.reverse /\ line.params.jitter = 0
     /\ line.params.pixel_size = 1
     /\ line.params.interval_mode \in {"none", "threshold"}) =>
        \A k \in 1..Len(LineSpans) :
            LET idx    == Included(LineSpans[k])
                before == Take(line.pixels, idx)
                first  == Take(lineOut[1], idx)
                second == Take(lineOut[2], idx)
                n      == Len(idx)
            IN  PairwiseDistinct(KeysOf(before, line.params.sort_key)) =>
                    /\ NonDecreasing(KeysOf(first, line.params.sort_key))
                    /\ \A i \in 1..n : second[i] = first[n + 1 - i]
                    /\ (second = before)
                        <=> StrictlyDecreasing(KeysOf(before, line.params.sort_key))

\* A masked line of which the included pixels, four with distinct keys, came
\* back from the two calls in an order that is neither the original one nor
\* the sorted one.
C9_Witness ==
    /\ LineResorted
    /\ ~line.params.reverse /\ line.params.jitter = 0
    /\ line.params.pixel_size = 1 /\ line.params.interval_mode = "none"
    /\ line.hasMask
    /\ Len(LineSpans) = 1
    /\ Len(Included(LineSpans[1])) = 4
    /\ PairwiseDistinct(KeysOf(Take(line.pixels, Included(LineSpans[1])),
                               line.params.sort_key))
    /\ lineOut[2] # line.pixels
    /\ lineOut[2] # lineOut[1]
    /\ lineOut[1] # line.pixels

----------------------------------------------------------------------------
(* The specification of detect_spans: one call on a line.                  *)

MaxSpanLen == 16

MaxRandomLen == 48

\* (lower, upper) in hundredths
ThresholdPairs == {<<25, 80>>, <<40, 50>>, <<0, 100>>, <<80, 25>>}

SpanMins == {1, 2, 3, 11}

SpanMaxes == {0, 1, 3, 10}

RandomLens == {0, 1, RandLenMin, RandLenMin + 2, RandLenMin + 3, 25, MaxRandomLen}

SpanArgs(pixels, mode, thr, span_min, span_max) ==
    [pixels |-> pixels, mode |-> mode, lower |-> thr[1], upper |-> thr[2],
     span_min |-> span_min, span_max |-> span_max]

\* The calls of detect_spans the model makes, as predicates of the call.
ThresholdCall(l) ==
    \E pat \in LinePatterns, n \in 0..MaxSpanLen, thr \in ThresholdPairs,
       lo \in SpanMins, hi \in SpanMaxes :
        l = SpanArgs(MakeLine(pat, n), "threshold", thr, lo, hi)

PositionalCall(l) ==
    \E pat \in LinePatterns, n \in 0..MaxSpanLen, mode \in {"edges", "waves", "none"},
       lo \in SpanMins, hi \in SpanMaxes :
        l = SpanArgs(MakeLine(pat, n), mode, <<25, 80>>, lo, hi)

LongCall(l) ==
    \E n \in RandomLens, mode \in {"random", "waves"},
       sl \in {<<1, 0>>, <<2, 3>>, <<11, 0>>, <<3, 10>>} :
        l = SpanArgs(MakeLine(<<Grey, Light>>, n), mode, <<25, 80>>, sl[1], sl[2])

White == <<255, 255, 255>>

\* A pixel of brightness exactly 0.07: 299 * 8 + 587 * 4 + 114 * 115 = 17850.
Dim == <<8, 4, 115>>

Mid == <<128, 128, 128>>

Bright == <<230, 230, 230>>

\* Brightness about [0, 0, 0.5, 0.5, 0.5, 0, 0, 0.9, 0.9, 0].
ExampleLine == <<Black, Black, Mid, Mid, Mid, Black, Black, Bright, Bright, Black>>

BoundaryPatterns ==
    {ExampleLine,
     <<White, Dim, Black, Mid>>,
     <<Dim, Dim, Bright, White, White>>,
     <<Black, White, Dim>>}

\* Pixels whose brightness is a threshold, or next to one.
BoundaryCall(l) ==
    \E pat \in BoundaryPatterns, n \in 1..MaxSpanLen,
       thr \in {<<25, 80>>, <<7, 80>>, <<0, 7>>, <<0, 100>>, <<7, 100>>, <<100, 100>>},
       sl \in {<<1, 0>>, <<2, 3>>} :
        l = SpanArgs(MakeLine(pat, n), "threshold", thr, sl[1], sl[2])

SpansInit ==
    /\ pc = "spans"
    /\ \/ ThresholdCall(line)
       \/ PositionalCall(line)
       \/ LongCall(line)
       \/ BoundaryCall(line)
    /\ lineOut = <<>>
    /\ tb = "stable"
    /\ args = <<>>
    /\ heap = <<>>
    /\ ret = [ok |-> FALSE, ref |-> 0]
    /\ trace = [region |-> NoArray, sorted |-> NoArray]

\* detect_spans(pixels, mode, lower, upper, span_min, span_max)
DetectSpans ==
    /\ pc = "spans"
    /\ \E o \in DetectSteps(line.pixels, line.mode, line.lower, line.upper,
                             line.span_min, line.span_max) :
            /\ lineOut' = o.spans
            /\ trace' = [detected |-> o.detected]
    /\ pc' = "detected"
    /\ UNCHANGED <<heap, args, ret, line, tb>>

SpansNext == DetectSpans

SpecSpans == SpansInit /\ [][SpansNext]_vars

----------------------------------------------------------------------------
(* Properties of detect_spans                                              *)

Detected == pc = "detected"

\* C10: the spans detect_spans returns are in increasing order and pairwise
\* disjoint (each starts at or after the end of the one before), and each
\* has 0 <= start < end <= N, for every mode, length, thresholds and limits
\* and every outcome of the random draws.
C10_SpansOrderedDisjoint ==
    Detected =>
        LET N == Len(line.pixels)
        IN  /\ \A k \in 1..Len(lineOut) :
                    /\ 0 <= lineOut[k][1]
                    /\ lineOut[k][1] < lineOut[k][2]
                    /\ lineOut[k][2] <= N
            /\ \A k \in 1..(Len(lineOut) - 1) :
                    lineOut[k][2] <= lineOut[k + 1][1]

\* Random mode with a cap: two drawn spans with a gap between them, the
\* first one split.
C10_Witness ==
    /\ Detected
    /\ line.mode = "random" /\ line.span_max = 10 /\ line.span_min = 3
    /\ Len(line.pixels) = MaxRandomLen
    /\ Len(lineOut) >= 4
    /\ lineOut[1] = <<0, 10>>
    /\ lineOut[2] = <<10, 11>>
    /\ lineOut[3][1] > 11

\* spans lists exactly the maximal runs of TRUE of the boolean sequence in,
\* in increasing order, as 0-based half-open ranges.
IsRunList(spans, in) ==
    LET N == Len(in)
    IN  /\ \A k \in 1..Len(spans) :
                LET a == spans[k][1]
                    b == spans[k][2]
                IN  /\ 0 <= a /\ a < b /\ b <= N
                    /\ \A i \in (a + 1)..b : in[i]
                    /\ a = 0 \/ ~in[a]
                    /\ b = N \/ ~in[b + 1]
        /\ \A i \in 1..N : in[i] => \E k \in 1..Len(spans) :
                spans[k][1] < i /\ i <= spans[k][2]
        /\ \A k \in 1..(Len(spans) - 1) : spans[k][2] < spans[k + 1][1]

\* lower <= b <= upper for the exact brightness b of pixel p.
ExactIn(p, lower, upper) ==
    /\ 100 * BrightnessMilli(p) >= 255000 * lower
    /\ 100 * BrightnessMilli(p) <= 255000 * upper

\* lower <= b <= upper for the float32 brightness the code computes, the
\* bounds rounded to float32.
F32In(p, lower, upper) ==
    /\ F32LessEq(F32FromRatio(lower, 100), BrightnessF32(p))
    /\ F32LessEq(BrightnessF32(p), F32FromRatio(upper, 100))

PlainThreshold ==
    /\ Detected
    /\ line.mode = "threshold" /\ line.span_min = 1 /\ line.span_max = 0

Surviving ==
    LET LongEnough(sp) == (sp[2] - sp[1]) >= line.span_min
    IN  IF line.span_min > 1 THEN SelectSeq(trace.detected, LongEnough)
        ELSE trace.detected

\* The sub-spans that tile (s, e) in steps of m: ceil((e - s) / m) of them,
\* the k-th from s + (k - 1) m to s + k m or e.
Tiles(sp, m) ==
    [k \in 1..((sp[2] - sp[1] + m - 1) \div m) |->
        <<sp[1] + (k - 1) * m, Min(sp[1] + k * m, sp[2])>>]

RECURSIVE Flatten(_)
Flatten(ss) == IF ss = <<>> THEN <<>> ELSE Head(ss) \o Flatten(Tail(ss))

\* C12: when span_max > 0 every returned span is at most span_max long, and
\* the returned list is, for each surviving span of the mode in turn, the
\* consecutive sub-spans that tile it, each span_max long except possibly
\* the last of a span; (0, 10) with span_max 3 gives (0,3) (3,6) (6,9) (9,10).
C12_SpanSplitting ==
    (Detected /\ line.span_max > 0) =>
        /\ \A k \in 1..Len(lineOut) :
                lineOut[k][2] - lineOut[k][1] <= line.span_max
        /\ lineOut = Flatten([k \in 1..Len(Surviving) |->
                                Tiles(Surviving[k], line.span_max)])
        /\ (Surviving = << <<0, 10>> >> /\ line.span_max = 3) =>
                lineOut = << <<0, 3>>, <<3, 6>>, <<6, 9>>, <<9, 10>> >>

\* Random mode: two drawn spans survive the filter and are both split, each
\* with a shorter last sub-span.
C12_Witness ==
    /\ Detected
    /\ line.mode = "random" /\ line.span_max = 3 /\ line.span_min = 2
    /\ Len(Surviving) = 2
    /\ Len(lineOut) = 8
    /\ lineOut[4] = <<9, 10>>
    /\ lineOut[8][2] - lineOut[8][1] = 1

----------------------------------------------------------------------------
(* Properties of _sort_line_blocked                                       *)

\* The floor(n / bs) aligned groups of bs consecutive pixels of a line.
GroupsOf(pixels, bs) ==
    [g \in 1..(Len(pixels) \div bs) |-> Slice(pixels, (g - 1) * bs, g * bs)]

\* The pixels after the last whole group.
Remainder(pixels, bs) ==
    Slice(pixels, (Len(pixels) \div bs) * bs, Len(pixels))

\* C13: with pixel_size = bs > 1 and jitter 0 the returned line has the
\* length of the input, its floor(n / bs) aligned groups are the groups of
\* the input in some order, each with its pixels in their original order,
\* and the n mod bs pixels after the last group are unchanged; 6 pixels with
\* bs 3 are 2 groups.
C13_BlockedGrouping ==
    (LineSorted /\ line.params.pixel_size > 1 /\ line.params.jitter = 0) =>
        LET bs == line.params.pixel_size
        IN  /\ Len(lineOut[1]) = Len(line.pixels)
            /\ SameBag(GroupsOf(line.pixels, bs), GroupsOf(lineOut[1], bs))
            /\ Remainder(lineOut[1], bs) = Remainder(line.pixels, bs)
            /\ (Len(line.pixels) = 6 /\ bs = 3) =>
                    /\ Len(GroupsOf(line.pixels, bs)) = 2
                    /\ lineOut[1] \in {line.pixels,
                                       GroupsOf(line.pixels, bs)[2]
                                          \o GroupsOf(line.pixels, bs)[1]}

\* Eight pixels with bs 3: the two groups changed places, the last two
\* pixels stayed.
C13_Witness ==
    /\ LineSorted
    /\ line.params.pixel_size = 3 /\ line.params.jitter = 0
    /\ Len(line.pixels) = 8
    /\ GroupsOf(lineOut[1], 3)[1] = GroupsOf(line.pixels, 3)[2]
    /\ GroupsOf(lineOut[1], 3)[1] # GroupsOf(line.pixels, 3)[1]

----------------------------------------------------------------------------
(* The specification of compute_sort_values for the keys hue and           *)
(* saturation: one call on a one-pixel array.                              *)

\* Channel values: the ends of the uint8 range, their neighbours and the
\* middle.
ChannelLevels == {0, 1, 127, 128, 254, 255}

KeysInit ==
    /\ pc = "keys"
    /\ line \in {<< <<r, g, b>> >> : r \in ChannelLevels, g \in ChannelLevels,
                                     b \in ChannelLevels}
    /\ lineOut = <<>>
    /\ tb = "stable"
    /\ args = <<>>
    /\ heap = <<>>
    /\ ret = [ok |-> FALSE, ref |-> 0]
    /\ trace = [region |-> NoArray, sorted |-> NoArray]

\* compute_sort_values(pixels, SortKey.HUE) and (pixels, SortKey.SATURATION)
ComputeKeys ==
    /\ pc = "keys"
    /\ lineOut' = [hue        |-> compute_sort_values(line, "hue"),
                   saturation |-> compute_sort_values(line, "saturation")]
    /\ pc' = "keyed"
    /\ UNCHANGED <<heap, args, ret, trace, line, tb>>

KeysNext == ComputeKeys

SpecKeys == KeysInit /\ [][KeysNext]_vars

Keyed == pc = "keyed"

\* C14: hue is 0 for pure red, 120 for pure green and 240 for pure blue; a
\* pixel with max channel = min channel has hue 0 and saturation 0; the
\* saturation of every pixel, black included, is a quotient by a non-zero
\* number; and every hue is in [0, 360).
C14_HueBoundary ==
    Keyed =>
        LET p   == line[1]
            hue == lineOut.hue[1]
            sat == lineOut.saturation[1]
        IN  /\ p = <<255, 0, 0>> => RatEq(hue, <<0, 1>>)
            /\ p = <<0, 255, 0>> => RatEq(hue, <<120, 1>>)
            /\ p = <<0, 0, 255>> => RatEq(hue, <<240, 1>>)
            /\ Max3(p) = Min3(p) => (RatEq(hue, <<0, 1>>) /\ RatEq(sat, <<0, 1>>))
            /\ hue[2] > 0 /\ sat[2] > 0
            /\ ~RatLess(hue, <<0, 1>>)
            /\ RatLess(hue, <<360, 1>>)

\* Red is the max channel and green < blue: the hue wraps to just under 360.
C14_Witness ==
    /\ Keyed
    /\ line[1] = <<255, 0, 1>>
    /\ RatLess(<<359, 1>>, lineOut.hue[1])
    /\ RatEq(lineOut.saturation[1], <<1, 1>>)

----------------------------------------------------------------------------
(* Properties of the angle branch of sort_region                           *)

\* C15: a vertical sort with jitter 0 and a mode other than random ends as
\* the same call with angle 0 ends: both raise, or both return the same
\* image; and a call takes the rotation path exactly when its angle is not
\* 0 and its direction is horizontal.
C15_VerticalIgnoresAngle ==
    Done =>
        /\ trace.rotated <=>
                (args.params.angle # 0 /\ args.params.direction = "horizontal")
        /\ (/\ args.params.direction = "vertical" /\ args.params.jitter = 0
             /\ args.params.interval_mode # "random") =>
                \A o \in sort_region(<<args.image, args.mask>>, ImageRef,
                                      [args.params EXCEPT !.angle = 0],
                                      args.x, args.y, args.w, args.h,
                                      args.hasMask, MaskRef, tb) :
                    /\ o.ok = ret.ok
                    /\ ret.ok => o.heap[o.ref] = Returned

\* A vertical sort with angle 30 under a mask that moved pixels.
C15_Witness ==
    /\ Done /\ ret.ok
    /\ args.params.direction = "vertical" /\ args.params.angle = 30
    /\ args.params.interval_mode = "edges"
    /\ args.hasMask
    /\ ~trace.rotated
    /\ Returned # args.image

----------------------------------------------------------------------------
(* ui/main_window.py, ui/canvas_view.py and commands/sort_command.py: the  *)
(* window with an image loaded, its live preview and its undo stack.       *)
(*                                                                         *)
(* The heap holds the three objects the user interface changes in place:   *)
(* the array of the image buffer, the painted mask and the live SortParams.*)
(* A worker or a command holds each of its inputs by a handle, which is    *)
(* either a value of its own (a copy) or a reference to one of the three.  *)
(* Every sort of the window is horizontal, with angle 0, pixel_size 1 and  *)
(* jitter 0.  The finished signal of a worker is queued to the interface   *)
(* thread: lineOut is the queue of the signals emitted and not delivered.  *)

\* ImageBuffer._data
DataRef == 1

\* CanvasView._mask
ViewMaskRef == 2

\* MainWindow._params
ParamsRef == 3

\* SortParams(): the defaults of the dataclass.
SortParamsDefault ==
    [direction |-> "horizontal", angle |-> 0, sort_key |-> "brightness",
     interval_mode |-> "threshold", lower_threshold |-> 25, upper_threshold |-> 80,
     pixel_size |-> 1, span_min |-> 1, span_max |-> 0, jitter |-> 0,
     reverse |-> FALSE]

\* A handle that keeps the reference it was given: `self._image = image_data`.
KeepReference(hp, ref) == [own |-> FALSE, ref |-> ref, val |-> <<>>]

\* x.copy() (ndarray.copy, SortParams.copy): a handle on a value of its own.
Copy(hp, ref) == [own |-> TRUE, ref |-> 0, val |-> hp[ref]]

\* A handle on a new array.
Own(v) == [own |-> TRUE, ref |-> 0, val |-> v]

\* What a handle gives when it is read.
Deref(hp, hd) == IF hd.own THEN hd.val ELSE hp[hd.ref]

\* np.any(mask)
AnyTrue(m) == \E r \in 1..m.h, c \in 1..m.w : m.px[r][c]

\* The mask _apply_sort and _run_preview hand on: none when nothing is
\* painted, a copy of the crop to the selection when w > 0 and h > 0, the
\* painted mask itself otherwise.
MaskArg(hp, sel) ==
    LET m == hp[ViewMaskRef]
    IN  IF ~AnyTrue(m) THEN [has |-> FALSE, crop |-> FALSE, arr |-> NoArray]
        ELSE IF sel.w > 0 /\ sel.h > 0
        THEN [has |-> TRUE, crop |-> TRUE,
              arr |-> Slice2D(m, sel.y, sel.y + sel.h, sel.x, sel.x + sel.w)]
        ELSE [has |-> TRUE, crop |-> FALSE, arr |-> m]

\* mask.copy() if mask is not None else None, of both constructors.
MaskHandle(hp, ma) ==
    IF ~ma.has THEN Own(NoArray)
    ELSE IF ma.crop THEN Own(ma.arr)
    ELSE Copy(hp, ViewMaskRef)

\* mask[row_idx] of _sort_2d raises IndexError when the mask has fewer rows
\* than the region (for a vertical sort, both turned a quarter).
MaskRowMissing(image, params, x, y, w, h, hasMask, mask) ==
    LET c == ClampRegion(image.h, image.w, x, y, w, h)
    IN  /\ hasMask
        /\ IF params.direction = "vertical" THEN mask.w < c.w ELSE mask.h < c.h

\* sort_region(image, params, x, y, w, h, mask) as a worker or a command
\* calls it: the outcomes, each the image returned or a raise.
Invoke(image, params, x, y, w, h, hasMask, mask, rule) ==
    IF MaskRowMissing(image, params, x, y, w, h, hasMask, mask)
    THEN {[ok |-> FALSE, image |-> NoArray]}
    ELSE {[ok |-> o.ok, image |-> IF o.ok THEN o.heap[o.ref] ELSE NoArray] :
            o \in sort_region(<<image, mask>>, ImageRef, params, x, y, w, h,
                              hasMask, MaskRef, rule)}

\* What sort_region gives on the image, the params and the mask as they
\* are on the heap hp, for the selection sel.
OutcomesNow(hp, sel, rule) ==
    LET ma == MaskArg(hp, sel)
    IN  Invoke(hp[DataRef], hp[ParamsRef], sel.x, sel.y, sel.w, sel.h, ma.has,
               ma.arr, rule)

\* SortWorker(self._buffer.data, self._params.copy(), x, y, w, h, mask).
\* `taken` is not a field of the worker: it records the values of the
\* image, the mask and the params at the time of the construction.
SortWorker(hp, sel, rule) ==
    LET ma == MaskArg(hp, sel)
    IN  [image   |-> Copy(hp, DataRef),
         params  |-> Copy(hp, ParamsRef),
         hasMask |-> ma.has,
         mask    |-> MaskHandle(hp, ma),
         x |-> sel.x, y |-> sel.y, w |-> sel.w, h |-> sel.h,
         state   |-> "running",
         out     |-> [ok |-> FALSE, image |-> NoArray],
         taken   |-> [image |-> hp[DataRef], params |-> hp[ParamsRef],
                      mask |-> ma.arr]]

\* The guard of _run_preview left out: a worker is started at every expiry.
PreviewNeverBusy(workers) == FALSE

\* isRunning() of the worker the window holds; no worker, not running.
PreviewBusy(workers) ==
    workers # <<>> /\ workers[Len(workers)].state # "finished"

\* img[y:y+h, x:x+w].copy() if w > 0 and h > 0 else img.copy()
Snapshot(data, x, y, w, h) ==
    IF w > 0 /\ h > 0 THEN Slice2D(data, y, y + h, x, x + w) ELSE data

\* data[y:y+h, x:x+w] = region if w > 0 and h > 0 else data[:] = region
WriteRegion(data, x, y, w, h, region) ==
    IF w > 0 /\ h > 0 THEN SetSlice2D(data, y, y + h, x, x + w, region).arr
    ELSE SetSlice2D(data, 0, data.h, 0, data.w, region).arr

\* SortCommand(self._buffer, self._params.copy(), x, y, w, h, mask, ...).
\* The buffer is held by reference.  `taken`, `before`, `undone`, `sorts`
\* and `after` are not fields of the command: the first as for a worker,
\* the whole image at the construction, how many times the command was
\* undone and how many times it called sort_region (both counted to 2),
\* and the whole image after its first redo.
SortCommand(hp, sel, rule) ==
    LET ma == MaskArg(hp, sel)
    IN  [buffer  |-> KeepReference(hp, DataRef),
         params  |-> Copy(hp, ParamsRef),
         hasMask |-> ma.has,
         mask    |-> MaskHandle(hp, ma),
         x |-> sel.x, y |-> sel.y, w |-> sel.w, h |-> sel.h,
         old_region |-> Snapshot(hp[DataRef], sel.x, sel.y, sel.w, sel.h),
         new_region |-> <<>>,
         taken   |-> [image |-> hp[DataRef], params |-> hp[ParamsRef],
                      mask |-> ma.arr],
         before  |-> hp[DataRef],
         undone  |-> 0,
         sorts   |-> 0,
         after   |-> <<>>]

\* SortCommand.redo: the heap and the command after it, and whether
\* sort_region raised.
redo(hp, cmd, rule) ==
    IF cmd.new_region # <<>>
    THEN {[heap |-> [hp EXCEPT ![DataRef] =
                        WriteRegion(@, cmd.x, cmd.y, cmd.w, cmd.h, cmd.new_region[1])],
           cmd |-> cmd, raised |-> FALSE]}
    ELSE {IF o.ok
          THEN LET new  == Snapshot(o.image, cmd.x, cmd.y, cmd.w, cmd.h)
                   data == WriteRegion(hp[DataRef], cmd.x, cmd.y, cmd.w, cmd.h, new)
               IN  [heap |-> [hp EXCEPT ![DataRef] = data],
                    cmd |-> [cmd EXCEPT !.new_region = <<new>>,
                                        !.sorts = Min(@ + 1, 2),
                                        !.after = IF @ = <<>> THEN <<data>> ELSE @],
                    raised |-> FALSE]
          ELSE [heap |-> hp,
                cmd |-> [cmd EXCEPT !.sorts = Min(@ + 1, 2),
                                    !.after = IF @ = <<>> THEN <<hp[DataRef]>> ELSE @],
                raised |-> TRUE] :
            o \in Invoke(Deref(hp, cmd.buffer), Deref(hp, cmd.params),
                         cmd.x, cmd.y, cmd.w, cmd.h,
                         cmd.hasMask, Deref(hp, cmd.mask), rule)}

\* An undo that writes nothing.
UndoNothing(hp, cmd) == hp

\* SortCommand.undo: the heap after it.
undo(hp, cmd) ==
    [hp EXCEPT ![DataRef] = WriteRegion(@, cmd.x, cmd.y, cmd.w, cmd.h, cmd.old_region)]

\* _paint_at with the brush at pixel (ix, iy): the circle of radius
\* brush_size // 2, clipped to the mask, is set.
PaintAt(mask, ix, iy, brush_size) ==
    LET r == brush_size \div 2
    IN  [mask EXCEPT !.px =
            [row \in 1..mask.h |-> [col \in 1..mask.w |->
                \/ mask.px[row][col]
                \/ /\ Abs(row - 1 - iy) <= r /\ Abs(col - 1 - ix) <= r
                   /\ (col - 1 - ix) * (col - 1 - ix)
                        + (row - 1 - iy) * (row - 1 - iy) <= r * r]]]

\* _erase_at: the circle is cleared.
EraseAt(mask, ix, iy, eraser_size) ==
    LET r == eraser_size \div 2
    IN  [mask EXCEPT !.px =
            [row \in 1..mask.h |-> [col \in 1..mask.w |->
                /\ mask.px[row][col]
                /\ ~(/\ Abs(row - 1 - iy) <= r /\ Abs(col - 1 - ix) <= r
                     /\ (col - 1 - ix) * (col - 1 - ix)
                          + (row - 1 - iy) * (row - 1 - iy) <= r * r)]]]

\* init_mask / clear_mask: nothing painted.
EmptyMask(h, w) == [h |-> h, w |-> w, px |-> [r \in 1..h |-> [c \in 1..w |-> FALSE]]]

----------------------------------------------------------------------------
(* The inputs of the window                                                *)

\* The user events of one behaviour of the preview specification.
MaxPreviewEvents == 3

\* The user events of one behaviour of the command specification.
MaxCommandEvents == 4

\* The images loaded: 2 rows of 3 pixels.  No two different pixels of the
\* first image have the same brightness.
WindowImage == MakeArray(2, 3, <<Orange, Light, Grey, Black>>)

WindowImages == {WindowImage, MakeArray(2, 3, <<Light, Black, Orange>>)}

\* The image loaded when jitter is set: one row of 2 pixels.
JitterImage == MakeArray(1, 2, <<Orange, Light>>)

\* The values of the settings panel.
WindowParamSets == {SortParamsDefault, [SortParamsDefault EXCEPT !.reverse = TRUE]}

Selection(x, y, w, h) == [x |-> x, y |-> y, w |-> w, h |-> h]

\* The selections: none (the whole image), a rectangle that reaches over
\* the right edge of the image, one below the image.
WindowSelections(img) ==
    {Selection(0, 0, 0, 0), Selection(1, 0, img.w, 1), Selection(0, img.h, 2, 1)}

\* A rectangle inside the image, a column with no width given (the whole
\* image), a rectangle to the right of the image.
MoreSelections(img) ==
    {Selection(1, 0, 2, 1), Selection(1, 0, 0, 2), Selection(img.w, 0, 1, 2)}

\* Where the brush and the eraser are put down, and their sizes.
BrushPoints == {<<1, 0>>}

BrushSizes == {1, 2}

\* The masks at the start: nothing painted, or one stroke of the brush.
WindowMasks(img) ==
    {EmptyMask(img.h, img.w), PaintAt(EmptyMask(img.h, img.w), 1, 0, 2)}

----------------------------------------------------------------------------
(* The specifications of the window: the live preview with the events that *)
(* change what it reads, and the undo stack without the preview.           *)

\* The window with an image loaded, a selection made and a mask painted.
WindowState(img, m, s, p, enabled, budget) ==
    /\ pc = "window"
    /\ heap = <<img, m, p>>
    /\ args = [sel |-> s, preview_enabled |-> enabled, timer |-> enabled,
               preview_item |-> <<>>, undo_stack |-> <<>>, undo_index |-> 0,
               modified |-> FALSE, path |-> TRUE, events |-> budget]
    /\ ret = <<>>
    /\ lineOut = <<>>
    /\ line = <<>>
    /\ trace = [dropped |-> 0, changed |-> FALSE, reply |-> "none", saved |-> FALSE]

\* One stroke of the brush is painted, nothing is selected, and the live
\* preview has just been switched on.
PreviewInit ==
    /\ WindowState(WindowImage, PaintAt(EmptyMask(WindowImage.h, WindowImage.w), 1, 0, 2),
                   Selection(0, 0, 0, 0), SortParamsDefault, TRUE, MaxPreviewEvents)
    /\ tb = "stable"

\* The live preview is off.  The settings are the defaults, or jitter has
\* been set on a one-row image.
CommandInit ==
    /\ \/ \E img \in WindowImages :
            \E m \in WindowMasks(img), s \in WindowSelections(img) \cup MoreSelections(img) :
                WindowState(img, m, s, SortParamsDefault, FALSE, MaxCommandEvents)
       \/ \E s \in WindowSelections(JitterImage) :
            WindowState(JitterImage, EmptyMask(JitterImage.h, JitterImage.w), s,
                        [SortParamsDefault EXCEPT !.jitter = 1], FALSE,
                        MaxCommandEvents)
    /\ tb \in TieBreaks

\* `changed` of trace: the last user event was a change of the params or
\* of the selection that restarted the preview timer.  `reply` and `saved`:
\* the answer the last user event got from the unsaved-changes prompt
\* ("none" when it did not ask) and whether the save it then made wrote the
\* file.
Noted(t, c) == [t EXCEPT !.changed = c, !.reply = "none", !.saved = FALSE]

\* self._buffer.is_loaded
IsLoaded(hp) == hp[DataRef] # NoArray

\* One user event less to come.
Event(a) == [a EXCEPT !.events = @ - 1]

\* self._preview_timer.start() when the preview is enabled
Restart(a) == IF a.preview_enabled THEN [a EXCEPT !.timer = TRUE] ELSE a

\* _on_params_changed(params): the settings panel emits a new SortParams.
ParamsChanged ==
    /\ args.events > 0
    /\ \E p \in WindowParamSets \ {heap[ParamsRef]} :
            heap' = [heap EXCEPT ![ParamsRef] = p]
    /\ args' = Restart(Event(args))
    /\ trace' = Noted(trace, args.preview_enabled)
    /\ UNCHANGED <<pc, ret, line, lineOut, tb>>

\* _reset_params: the defaults; set_params blocks the signals of the panel.
ResetParams ==
    /\ args.events > 0
    /\ heap[ParamsRef] # SortParamsDefault
    /\ heap' = [heap EXCEPT ![ParamsRef] = SortParamsDefault]
    /\ args' = Event(args)
    /\ trace' = Noted(trace, FALSE)
    /\ UNCHANGED <<pc, ret, line, lineOut, tb>>

\* _on_selection_changed / _on_coords_input_changed
SelectionChanged ==
    /\ args.events > 0
    /\ \E s \in WindowSelections(heap[DataRef]) \ {args.sel} :
            args' = Restart(Event([args EXCEPT !.sel = s]))
    /\ trace' = Noted(trace, args.preview_enabled)
    /\ UNCHANGED <<pc, heap, ret, line, lineOut, tb>>

\* A stroke of the paint tool: _paint_at.
PaintMask ==
    /\ args.events > 0
    /\ \E pt \in BrushPoints, size \in BrushSizes :
            /\ PaintAt(heap[ViewMaskRef], pt[1], pt[2], size) # heap[ViewMaskRef]
            /\ heap' = [heap EXCEPT ![ViewMaskRef] = PaintAt(@, pt[1], pt[2], size)]
    /\ args' = Event(args)
    /\ trace' = Noted(trace, FALSE)
    /\ UNCHANGED <<pc, ret, line, lineOut, tb>>

\* A stroke of the eraser: _erase_at.
EraseMask ==
    /\ args.events > 0
    /\ \E pt \in BrushPoints, size \in BrushSizes :
            /\ EraseAt(heap[ViewMaskRef], pt[1], pt[2], size) # heap[ViewMaskRef]
            /\ heap' = [heap EXCEPT ![ViewMaskRef] = EraseAt(@, pt[1], pt[2], size)]
    /\ args' = Event(args)
    /\ trace' = Noted(trace, FALSE)
    /\ UNCHANGED <<pc, ret, line, lineOut, tb>>

\* clear_mask
ClearMask ==
    /\ args.events > 0
    /\ AnyTrue(heap[ViewMaskRef])
    /\ heap' = [heap EXCEPT ![ViewMaskRef] = EmptyMask(@.h, @.w)]
    /\ args' = Event(args)
    /\ trace' = Noted(trace, FALSE)
    /\ UNCHANGED <<pc, ret, line, lineOut, tb>>

\* _toggle_preview(enabled)
TogglePreview ==
    /\ args.events > 0
    /\ args' = Event(IF ~args.preview_enabled
                     THEN [args EXCEPT !.preview_enabled = TRUE, !.timer = TRUE]
                     ELSE [args EXCEPT !.preview_enabled = FALSE, !.timer = FALSE,
                                       !.preview_item = <<>>])
    /\ trace' = Noted(trace, FALSE)
    /\ UNCHANGED <<pc, heap, ret, line, lineOut, tb>>

\* _apply_sort from the state (hp, a): the command is constructed and
\* pushed, push calls its redo, and the preview is cleared.  When redo
\* raises, the command is on the stack all the same, and whether the rest
\* of _apply_sort (clear_preview) runs is up to the binding.
ApplySortResults(hp, a) ==
    IF ~IsLoaded(hp) THEN {[heap |-> hp, args |-> a]}
    ELSE UNION {
            {[heap |-> o.heap,
              args |-> [a EXCEPT
                        !.undo_stack = Append(SubSeq(@, 1, a.undo_index), o.cmd),
                        !.undo_index = @ + 1,
                        !.preview_item = pi,
                        !.modified = @ \/ ~o.raised]] :
                pi \in IF o.raised THEN {<<>>, a.preview_item} ELSE {<<>>}} :
            o \in redo(hp, SortCommand(hp, a.sel, tb), tb)}

\* The step of _apply_sort as a user event, with an image loaded.
ApplySortFrom(hp, a) ==
    /\ IsLoaded(hp)
    /\ \E r \in ApplySortResults(hp, a) :
            heap' = r.heap /\ args' = Event(r.args)

\* _apply_sort
ApplySort ==
    /\ args.events > 0
    /\ ApplySortFrom(heap, args)
    /\ trace' = Noted(trace, FALSE)
    /\ UNCHANGED <<pc, ret, line, lineOut, tb>>

\* ContextMenu._set_and_apply for the entry "Reverse": the attribute of
\* the live params is set in place, then _apply_sort.
ContextMenuApply ==
    /\ args.events > 0
    /\ ApplySortFrom([heap EXCEPT ![ParamsRef].reverse = ~@], args)
    /\ trace' = Noted(trace, FALSE)
    /\ UNCHANGED <<pc, ret, line, lineOut, tb>>

\* QUndoStack.undo: undo of the command below the index.
Undo ==
    /\ args.events > 0
    /\ args.undo_index > 0
    /\ heap' = undo(heap, args.undo_stack[args.undo_index])
    /\ args' = Event([args EXCEPT !.undo_index = @ - 1,
                                  !.undo_stack[args.undo_index].undone = Min(@ + 1, 2),
                                  !.modified = TRUE])
    /\ trace' = Noted(trace, FALSE)
    /\ UNCHANGED <<pc, ret, line, lineOut, tb>>

\* QUndoStack.redo: redo of the command at the index.
Redo ==
    /\ args.events > 0
    /\ args.undo_index < Len(args.undo_stack)
    /\ \E o \in redo(heap, args.undo_stack[args.undo_index + 1], tb) :
            /\ heap' = o.heap
            /\ args' = Event([args EXCEPT !.undo_index = @ + 1,
                                          !.undo_stack[args.undo_index + 1] = o.cmd,
                                          !.modified = @ \/ ~o.raised])
    /\ trace' = Noted(trace, FALSE)
    /\ UNCHANGED <<pc, ret, line, lineOut, tb>>

\* The single-shot timer expires: _run_preview.  A request that finds the
\* worker running is dropped (trace counts them, to 1).
RunPreview ==
    /\ args.timer
    /\ args' = [args EXCEPT !.timer = FALSE]
    /\ IF ~IsLoaded(heap) \/ ~args.preview_enabled THEN UNCHANGED <<ret, trace>>
       ELSE IF PreviewBusy(ret) THEN ret' = ret /\ trace' = [trace EXCEPT !.dropped = 1]
       ELSE ret' = Append(ret, SortWorker(heap, args.sel, tb)) /\ UNCHANGED trace
    /\ UNCHANGED <<pc, heap, line, lineOut, tb>>

\* SortWorker.run in the thread of worker k: sort_region on what the
\* worker holds, then finished.emit(result), or finished.emit(None) when
\* sort_region raised.
WorkerRun ==
    \E k \in 1..Len(ret) :
        /\ ret[k].state = "running"
        /\ \E o \in Invoke(Deref(heap, ret[k].image), Deref(heap, ret[k].params),
                           ret[k].x, ret[k].y, ret[k].w, ret[k].h,
                           ret[k].hasMask, Deref(heap, ret[k].mask), tb) :
                /\ ret' = [ret EXCEPT ![k].state = "emitted", ![k].out = o]
                /\ lineOut' = Append(lineOut, [worker |-> k, ok |-> o.ok, image |-> o.image])
        /\ UNCHANGED <<pc, heap, args, trace, line, tb>>

\* run has returned: the thread of worker k is over.
WorkerExit ==
    \E k \in 1..Len(ret) :
        /\ ret[k].state = "emitted"
        /\ ret' = [ret EXCEPT ![k].state = "finished"]
        /\ UNCHANGED <<pc, heap, args, trace, line, lineOut, tb>>

\* _on_preview_done that shows whatever it is handed, None included.
ShowsAnything(result, enabled) == enabled

\* result is not None and self._preview_enabled
ShowsResult(result, enabled) == result.ok /\ enabled

\* The interface thread delivers the oldest signal: _on_preview_done.
PreviewDone ==
    /\ lineOut # <<>>
    /\ args' = IF ShowsResult(Head(lineOut), args.preview_enabled)
               THEN [args EXCEPT !.preview_item = <<Head(lineOut).image>>]
               ELSE args
    /\ lineOut' = Tail(lineOut)
    /\ UNCHANGED <<pc, heap, ret, trace, line, tb>>

CommandNext ==
    \/ ParamsChanged \/ ResetParams \/ SelectionChanged
    \/ PaintMask \/ EraseMask \/ ClearMask
    \/ ApplySort \/ ContextMenuApply \/ Undo \/ Redo

PreviewNext ==
    \/ CommandNext
    \/ TogglePreview \/ RunPreview \/ WorkerRun \/ WorkerExit \/ PreviewDone

SpecPreview == PreviewInit /\ [][PreviewNext]_vars

SpecCommand == CommandInit /\ [][CommandNext]_vars

----------------------------------------------------------------------------
(* Properties of the live preview                                          *)

\* The workers whose thread is running (isRunning()).
Running(workers) == {k \in 1..Len(workers) : workers[k].state # "finished"}

\* A step of _run_preview that found the preview enabled.
PreviewRequested ==
    /\ args.timer /\ ~args'.timer
    /\ args.preview_enabled /\ args'.preview_enabled

\* C16: at most one preview worker is running at any time; a worker is
\* started only by a preview request that finds no worker running; a
\* request that finds one running starts no worker and leaves nothing
\* behind (no worker, no signal, the timer stopped); and the step in which
\* a worker emits or ends starts no worker and does not start the timer.
C16_OnePreviewWorker ==
    /\ [](Cardinality(Running(ret)) <= 1)
    /\ [][/\ Len(ret') > Len(ret) =>
                /\ PreviewRequested
                /\ Running(ret) = {}
                /\ Len(ret') = Len(ret) + 1
          /\ (PreviewRequested /\ Running(ret) # {}) =>
                /\ ret' = ret
                /\ lineOut' = lineOut
                /\ args' = [args EXCEPT !.timer = FALSE]
          /\ (\E k \in 1..Len(ret) : ret'[k].state # ret[k].state) =>
                /\ Len(ret') = Len(ret)
                /\ args' = args]_vars

\* A request was dropped while the only worker was running; the worker has
\* ended since, its signal is delivered, and there is still one worker and
\* no timer running.
C16_Witness ==
    /\ trace.dropped = 1
    /\ Len(ret) = 1
    /\ ret[1].state = "finished"
    /\ lineOut = <<>>
    /\ ~args.timer /\ args.preview_enabled

\* What sort_region gives on the values that were current when the worker
\* or command c was constructed.
OutcomesTaken(c) ==
    Invoke(c.taken.image, c.taken.params, c.x, c.y, c.w, c.h, c.hasMask,
           c.taken.mask, tb)

\* The signal worker k emits.
SignalOf(workers, k) ==
    [worker |-> k, ok |-> workers[k].out.ok, image |-> workers[k].out.image]

\* C17: a worker leaves run by emitting one signal, and never runs again:
\* when sort_region raises the signal carries None (the exception stays in
\* run, the thread ends as any other); the delivery of a None leaves the
\* displayed preview, the image buffer and the undo stack as they were;
\* and with the failed worker ended, the next expiry of the timer starts
\* a worker.
C17_FailureReported ==
    /\ [][/\ \A k \in 1..Len(ret) :
                /\ ret[k].state # "running" => ret'[k].state # "running"
                /\ (ret[k].state = "running" /\ ret'[k].state # "running") =>
                        /\ lineOut' = Append(lineOut, SignalOf(ret', k))
                        /\ ret'[k].state = "emitted"
                        /\ ret'[k].out.ok <=> \E o \in OutcomesTaken(ret[k]) : o.ok
          /\ Len(lineOut') > Len(lineOut) =>
                \E k \in 1..Len(ret) :
                    ret[k].state = "running" /\ ret'[k].state = "emitted"
          /\ (lineOut # <<>> /\ lineOut' = Tail(lineOut) /\ ~Head(lineOut).ok) =>
                /\ args' = args
                /\ heap' = heap
          /\ (/\ PreviewRequested
              /\ ret # <<>>
              /\ ret[Len(ret)].state = "finished" /\ ~ret[Len(ret)].out.ok) =>
                /\ Len(ret') = Len(ret) + 1
                /\ ret'[Len(ret')].state = "running"]_vars

\* A preview is displayed; a later worker raised, ended, and its None was
\* delivered; a worker started after it is running.
C17_Witness ==
    /\ args.preview_item # <<>>
    /\ lineOut = <<>>
    /\ \E k \in 1..Len(ret) :
            /\ ret[k].state = "finished" /\ ~ret[k].out.ok
            /\ \E j \in (k + 1)..Len(ret) : ret[j].state = "running"
            /\ \E i \in 1..(k - 1) :
                    ret[i].out.ok /\ args.preview_item = <<ret[i].out.image>>

\* The result of every worker that has emitted, and of every command that
\* has sorted, is what sort_region gives on the values taken at its
\* construction; a command that holds no result is one whose sort raised,
\* and would raise again on the buffer as it is now.
ResultFromTaken ==
    /\ \A k \in 1..Len(ret) :
            ret[k].state # "running" => ret[k].out \in OutcomesTaken(ret[k])
    /\ \A k \in 1..Len(args.undo_stack) :
            LET c == args.undo_stack[k]
            IN  IF c.new_region # <<>>
                THEN \E o \in OutcomesTaken(c) :
                        o.ok /\ c.new_region[1] = Snapshot(o.image, c.x, c.y, c.w, c.h)
                ELSE /\ \A o \in OutcomesTaken(c) : ~o.ok
                     /\ \A o \in redo(heap, c, tb) : o.raised

\* Every worker holds its image, its params and its mask as values of its
\* own; every command holds so its params and its mask.
CopiesHeld ==
    /\ \A k \in 1..Len(ret) : ret[k].image.own /\ ret[k].params.own /\ ret[k].mask.own
    /\ \A k \in 1..Len(args.undo_stack) :
            args.undo_stack[k].params.own /\ args.undo_stack[k].mask.own

----------------------------------------------------------------------------
(* Properties of the undo stack                                            *)

\* C19: whenever a command has been undone (after redo and undo, and after
\* any longer alternation that ends with undo), the whole image buffer is
\* the buffer as it was before the command was first applied.
C19_UndoRestores ==
    args.undo_index < Len(args.undo_stack) =>
        heap[DataRef] = args.undo_stack[args.undo_index + 1].before

\* A command on a rectangle that reaches over the edge of the image, which
\* changed pixels, has been undone, redone and undone again.
C19_Witness ==
    /\ args.undo_index < Len(args.undo_stack)
    /\ LET c == args.undo_stack[args.undo_index + 1]
       IN  /\ c.undone = 2
           /\ c.w > 0 /\ c.h > 0 /\ c.x + c.w > heap[DataRef].w
           /\ c.new_region # <<>>
           /\ c.new_region[1] # c.old_region

----------------------------------------------------------------------------
(* The order of the keys after _sort_line                                  *)

NonIncreasing(keys) ==
    \A i \in 1..(Len(keys) - 1) : ~RatLess(keys[i], keys[i + 1])

\* The lists of spans detect_spans can return for the line.
SpanListsOfLine ==
    detect_spans(line.pixels, line.params.interval_mode,
                 line.params.lower_threshold, line.params.upper_threshold,
                 line.params.span_min, line.params.span_max)

\* The lines the span loop of the unblocked path can return for a list of
\* spans.
UnblockedResults(spans) ==
    SpanLoop(FALSE, line.pixels, line.params, line.hasMask, line.mask, spans,
             line.pixels, tb)

\* C20: with pixel_size 1 and jitter 0, whatever list of spans was detected,
\* the keys of the returned line at the included positions of each span
\* (every position without a mask, the mask-True positions with one), read
\* left to right, are non-decreasing with reverse off and non-increasing
\* with reverse on, when the span has at least 2 included pixels; and the
\* line the call returned is one of these lines.
C20_SortedWithinSpans ==
    (/\ LineSorted
     /\ line.params.pixel_size = 1 /\ line.params.jitter = 0) =>
        /\ \E spans \in SpanListsOfLine : lineOut[1] \in UnblockedResults(spans)
        /\ \A spans \in SpanListsOfLine : \A out \in UnblockedResults(spans) :
                \A k \in 1..Len(spans) :
                    LET idx  == Included(spans[k])
                        keys == KeysOf(Take(out, idx), line.params.sort_key)
                    IN  Len(idx) >= 2 =>
                            IF line.params.reverse THEN NonIncreasing(keys)
                                                   ELSE NonDecreasing(keys)

\* A masked line sorted with reverse on in threshold mode: two spans or
\* more, one of them with two included pixels that the call exchanged.
C20_Witness ==
    /\ LineSorted
    /\ line.params.pixel_size = 1 /\ line.params.jitter = 0
    /\ line.params.reverse /\ line.hasMask
    /\ line.params.interval_mode = "threshold"
    /\ Len(LineSpans) >= 2
    /\ \E k \in 1..Len(LineSpans) :
            LET idx == Included(LineSpans[k])
            IN  /\ Len(idx) >= 2
                /\ Take(lineOut[1], idx) # Take(line.pixels, idx)
                /\ NonIncreasing(KeysOf(Take(lineOut[1], idx), line.params.sort_key))
                /\ ~NonDecreasing(KeysOf(Take(lineOut[1], idx), line.params.sort_key))

----------------------------------------------------------------------------
(* The order of equal keys after _sort_line                                *)

\* The lines the span loop of the unblocked path returns for a list of
\* spans when argsort keeps equal keys in the order they came in.
StableResults(spans) ==
    SpanLoop(FALSE, line.pixels, line.params, line.hasMask, line.mask, spans,
             line.pixels, "stable")

\* C21 (as claimed): with pixel_size 1, reverse off and jitter 0 the line
\* _sort_line returns is the one in which the included pixels of every span
\* are in ascending key order and pixels with equal keys are in their
\* original relative order.
C21_StableOrder ==
    (/\ pc = "sorted"
     /\ line.params.pixel_size = 1 /\ ~line.params.reverse
     /\ line.params.jitter = 0) =>
        \E spans \in SpanListsOfLine : lineOut[1] \in StableResults(spans)

----------------------------------------------------------------------------
(* Jitter                                                                  *)

\* C22 (as claimed): with pixel_size 1 and jitter > 0, for every sequence of
\* offsets drawn, the included pixels of each span of the returned line are
\* a rearrangement of the included pixels of that span of the input: no
\* pixel is duplicated or lost.
C22_JitterPermutes ==
    (/\ pc = "sorted"
     /\ line.params.pixel_size = 1 /\ line.params.jitter > 0) =>
        \E spans \in SpanListsOfLine :
            \A k \in 1..Len(spans) :
                SameBag(Take(lineOut[1], Included(spans[k])),
                        Take(line.pixels, Included(spans[k])))

\* C23 (as claimed): with pixel_size > 1 and jitter > 0, for every sequence
\* of offsets drawn, every group of the input line appears in the returned
\* line as many times as in the input.
C23_GroupJitterPermutes ==
    (/\ pc = "sorted"
     /\ line.params.pixel_size > 1 /\ line.params.jitter > 0) =>
        SameBag(GroupsOf(lineOut[1], line.params.pixel_size),
                GroupsOf(line.pixels, line.params.pixel_size))

----------------------------------------------------------------------------
(* The span limits of the blocked path                                     *)

\* The lines _sort_line_blocked would return if the group-level detection
\* were given span_min' = max(1, span_min div bs) and, for span_max > 0,
\* span_max' = max(1, span_max div bs).
ClaimedBlockedResults ==
    LET bs == line.params.pixel_size
        groups == GroupsOf(line.pixels, bs)
        rep_pixels == [g \in 1..Len(groups) |-> RepPixel(groups[g])]
        span_max == IF line.params.span_max > 0
                    THEN Max(1, line.params.span_max \div bs) ELSE 0
        spanLists == detect_spans(rep_pixels, line.params.interval_mode,
                                  line.params.lower_threshold,
                                  line.params.upper_threshold,
                                  Max(1, line.params.span_min \div bs), span_max)
    IN  IF Len(groups) < 2 THEN {line.pixels}
        ELSE UNION {SpanLoop(TRUE, line.pixels, line.params, line.hasMask,
                             line.mask, spans, line.pixels, tb) :
                        spans \in spanLists}

\* C24 (as claimed): with pixel_size = bs > 1 the line returned is one the
\* span loop gives on group-level spans detected with span_min' =
\* max(1, span_min div bs) and, when span_max > 0, span_max' =
\* max(1, span_max div bs); with 0 < span_max < bs the spans are capped at
\* one group, so no group moves.
C24_GroupSpanLimits ==
    (/\ pc = "sorted"
     /\ line.params.pixel_size > 1 /\ line.params.jitter = 0) =>
        /\ lineOut[1] \in ClaimedBlockedResults
        /\ (/\ line.params.span_max > 0
            /\ line.params.span_max < line.params.pixel_size) =>
                lineOut[1] = line.pixels

----------------------------------------------------------------------------
(* The cached result of a SortCommand                                      *)

\* C25 (as claimed): every command on the undo stack has called sort_region
\* exactly once, and whenever a command is the last one applied (after its
\* first redo and after every later one) the buffer is the buffer as it was
\* after the command's first redo.
C25_SortsOnce ==
    /\ \A k \in 1..Len(args.undo_stack) : args.undo_stack[k].sorts = 1
    /\ args.undo_index > 0 =>
            heap[DataRef] = args.undo_stack[args.undo_index].after[1]

----------------------------------------------------------------------------
(* What a SortCommand commits                                              *)

\* The images sort_region can return on the values command c was
\* constructed with.
ImagesTaken(c) == {o.image : o \in {q \in OutcomesTaken(c) : q.ok}}

\* C26 (as claimed): for every command whose sort returned, the whole buffer
\* after the command's first redo is an image sort_region returns for the
\* image, params, rectangle and mask the command was constructed with.
C26_CommitMatchesEngine ==
    \A k \in 1..Len(args.undo_stack) :
        LET c == args.undo_stack[k]
        IN  c.new_region # <<>> => c.after[1] \in ImagesTaken(c)

----------------------------------------------------------------------------
(* The preview after the last change                                       *)

\* A started thread gets to run.  WorkerRun is enabled exactly when some
\* worker is in the state "running" (Invoke is never empty), so this is weak
\* fairness of WorkerRun.
WorkersRun == []<>(\A k \in 1..Len(ret) : ret[k].state # "running")

\* The timer expires, a started thread runs and ends, and a queued signal
\* is delivered; the user is free to do nothing.
SpecPreviewLive ==
    /\ PreviewInit
    /\ [][PreviewNext]_vars
    /\ WF_vars(RunPreview)
    /\ WorkersRun
    /\ WF_vars(WorkerExit)
    /\ WF_vars(PreviewDone)

\* The images sort_region returns on the image, params, selection and mask
\* as they are now.
LatestImages == {o.image : o \in {q \in OutcomesNow(heap, args.sel, tb) : q.ok}}

\* The last user event was a change of the params or of the selection with
\* the preview enabled, no user event follows, and sort_region does not
\* raise on the values as they are now.
LastChangeMade ==
    /\ trace.changed
    /\ args.events = 0
    /\ \A o \in OutcomesNow(heap, args.sel, tb) : o.ok

ShowsLatest ==
    /\ args.preview_item # <<>>
    /\ args.preview_item[1] \in LatestImages

\* C27 (as claimed): after the last change of the params or of the
\* selection, made with the preview enabled, the preview computed from the
\* latest params and selection is eventually displayed.
C27_PreviewConverges == LastChangeMade ~> ShowsLatest

----------------------------------------------------------------------------
(* ui/main_window.py: opening, saving and closing                          *)

\* The user events of one behaviour of the file specification.
MaxFileEvents == 3

\* The image a file that is opened holds.
LoadImages == {MakeArray(2, 3, <<Light, Black, Orange>>)}

\* _commit_preview_if_active: _apply_sort and clear_preview when the live
\* preview is on and shows something.
CommitPreview(hp, a) ==
    IF a.preview_enabled /\ a.preview_item # <<>>
    THEN {[heap |-> r.heap, args |-> [r.args EXCEPT !.preview_item = <<>>]] :
            r \in ApplySortResults(hp, a)}
    ELSE {[heap |-> hp, args |-> a]}

\* ImageBuffer.save wrote the file: the path is set and the buffer is no
\* longer modified.
Saved(c) ==
    [heap |-> c.heap, args |-> [c.args EXCEPT !.path = TRUE, !.modified = FALSE],
     saved |-> TRUE]

\* Nothing was written: the dialog was cancelled, or save raised and the
\* error was shown.
NotSaved(c) == [heap |-> c.heap, args |-> c.args, saved |-> FALSE]

\* _save_file_as after its own _commit_preview_if_active, which finds the
\* preview cleared by the one _save_file has just made: the dialog gives a
\* path or is cancelled; save(path) writes the file or raises.
_save_file_as(c) == {Saved(c), NotSaved(c)}

\* _save_file: with a path, save() writes the file or raises.
_save_file(hp, a) ==
    IF ~IsLoaded(hp) THEN {NotSaved([heap |-> hp, args |-> a])}
    ELSE UNION {IF ~c.args.path THEN _save_file_as(c)
                ELSE {Saved(c), NotSaved(c)} :
                    c \in CommitPreview(hp, a)}

\* _check_unsaved: whether to proceed (ok), with the answer to the prompt
\* and what the save did.
_check_unsaved(hp, a) ==
    IF ~a.modified
    THEN {[heap |-> hp, args |-> a, ok |-> TRUE, reply |-> "none", saved |-> FALSE]}
    ELSE {[heap |-> r.heap, args |-> r.args, ok |-> TRUE, reply |-> "save",
           saved |-> r.saved] : r \in _save_file(hp, a)}
         \cup {[heap |-> hp, args |-> a, ok |-> TRUE, reply |-> "discard",
                saved |-> FALSE],
               [heap |-> hp, args |-> a, ok |-> FALSE, reply |-> "cancel",
                saved |-> FALSE]}

Prompted(t, c) == [t EXCEPT !.changed = FALSE, !.reply = c.reply, !.saved = c.saved]

\* _save_file from the menu
SaveFile ==
    /\ args.events > 0
    /\ \E r \in _save_file(heap, args) :
            heap' = r.heap /\ args' = Event(r.args)
    /\ trace' = Noted(trace, FALSE)
    /\ UNCHANGED <<pc, ret, line, lineOut, tb>>

\* _close_image: ImageBuffer.close, clear_all, clear_selection (which emits
\* selection_changed, so the timer is restarted when the preview is on) and
\* the undo stack cleared.
CloseImage ==
    /\ args.events > 0
    /\ \E c \in _check_unsaved(heap, args) :
            /\ trace' = Prompted(trace, c)
            /\ IF ~c.ok THEN heap' = c.heap /\ args' = Event(c.args)
               ELSE /\ heap' = [c.heap EXCEPT ![DataRef] = NoArray]
                    /\ args' = Event(Restart([c.args EXCEPT
                                    !.path = FALSE, !.modified = FALSE,
                                    !.preview_item = <<>>,
                                    !.sel = Selection(0, 0, 0, 0),
                                    !.undo_stack = <<>>, !.undo_index = 0]))
    /\ UNCHANGED <<pc, ret, line, lineOut, tb>>

\* _open_file (dropEvent takes the same steps without the dialog): the
\* dialog is cancelled or load raises, and nothing changes, or _load_image
\* loads the file, makes a new mask and clears the undo stack.
OpenFile ==
    /\ args.events > 0
    /\ \E c \in _check_unsaved(heap, args) :
            /\ trace' = Prompted(trace, c)
            /\ \E img \in IF c.ok THEN LoadImages \cup {NoArray} ELSE {NoArray} :
                IF img = NoArray THEN heap' = c.heap /\ args' = Event(c.args)
                ELSE /\ heap' = [c.heap EXCEPT ![DataRef] = img,
                                               ![ViewMaskRef] = EmptyMask(img.h, img.w)]
                     /\ args' = Event([c.args EXCEPT
                                    !.path = TRUE, !.modified = FALSE,
                                    !.undo_stack = <<>>, !.undo_index = 0])
    /\ UNCHANGED <<pc, ret, line, lineOut, tb>>

\* closeEvent: the window closes (no user event follows) or the event is
\* ignored.
CloseWindow ==
    /\ args.events > 0
    /\ pc = "window"
    /\ \E c \in _check_unsaved(heap, args) :
            /\ trace' = Prompted(trace, c)
            /\ heap' = c.heap
            /\ IF c.ok THEN pc' = "closed" /\ args' = [c.args EXCEPT !.events = 0]
               ELSE pc' = pc /\ args' = Event(c.args)
    /\ UNCHANGED <<ret, line, lineOut, tb>>

\* An image is loaded from a file, nothing is painted or selected, and the
\* live preview has just been switched on.
FileInit ==
    /\ WindowState(WindowImage, EmptyMask(WindowImage.h, WindowImage.w),
                   Selection(0, 0, 0, 0), SortParamsDefault, TRUE, MaxFileEvents)
    /\ tb = "stable"

FileNext ==
    \/ ParamsChanged \/ ApplySort \/ Undo
    \/ SaveFile \/ CloseImage \/ OpenFile \/ CloseWindow
    \/ RunPreview \/ WorkerRun \/ WorkerExit \/ PreviewDone

SpecFile == FileInit /\ [][FileNext]_vars

----------------------------------------------------------------------------
(* Properties of opening, saving and closing                               *)

\* A step of _on_preview_done that installs the result it was handed.
Installs ==
    /\ lineOut # <<>> /\ lineOut' = Tail(lineOut)
    /\ ShowsResult(Head(lineOut), args.preview_enabled)

\* C28 (as claimed): no preview item exists while no image is loaded, and
\* _on_preview_done installs the result of a worker only over the image the
\* worker was constructed with: not when the image was closed, replaced or
\* changed by a sort or an undo since.
C28_PreviewOverItsImage ==
    /\ [](~IsLoaded(heap) => args.preview_item = <<>>)
    /\ [][Installs =>
            /\ IsLoaded(heap)
            /\ ret[Head(lineOut).worker].taken.image = heap[DataRef]]_vars

\* A user event that asked about unsaved changes, was answered Save, and
\* whose save did not write the file.
FailedSave ==
    /\ args.modified
    /\ args'.events < args.events
    /\ trace'.reply = "save" /\ ~trace'.saved

\* C30 (as claimed): when the buffer is modified, the prompt is answered
\* Save and the save does not write the file, the close, open or exit is
\* aborted: the window stays open and the buffer stays loaded and modified,
\* with its undo history.
C30_FailedSaveAborts ==
    [][FailedSave =>
            /\ pc' = "window"
            /\ IsLoaded(heap') /\ args'.modified
            /\ Len(args'.undo_stack) >= Len(args.undo_stack)]_vars

----------------------------------------------------------------------------
(* Vertical sorting and the transpose                                      *)

\* arr.transpose(1, 0, 2): rows and columns exchanged.
Transpose(arr) ==
    [h  |-> arr.w,
     w  |-> arr.h,
     px |-> [i \in 1..arr.w |-> [j \in 1..arr.h |-> arr.px[j][i]]]]

\* The horizontal call on the transposed image, rectangle and mask.
TransposedCall ==
    sort_region(<<Transpose(args.image), Transpose(args.mask)>>, ImageRef,
                [args.params EXCEPT !.direction = "horizontal"],
                args.y, args.x, args.h, args.w, args.hasMask, MaskRef, tb)

\* C29: with angle 0, jitter 0 and a mode other than random, a vertical
\* sort ends as the horizontal sort of the transposed image, rectangle
\* (y, x, h, w) and transposed mask ends: both raise, or the image returned
\* is the transpose of the image that call returns.
C29_VerticalIsTransposedHorizontal ==
    (/\ Done /\ args.params.direction = "vertical"
     /\ args.params.angle = 0 /\ args.params.jitter = 0
     /\ args.params.interval_mode # "random") =>
        \A o \in TransposedCall :
            /\ o.ok = ret.ok
            /\ ret.ok => Transpose(o.heap[o.ref]) = Returned

\* A vertical sort of an image with more than one row and more than one
\* column, under a mask, that moved pixels.
C29_Witness ==
    /\ Done /\ ret.ok
    /\ args.params.direction = "vertical"
    /\ args.params.angle = 0 /\ args.params.jitter = 0
    /\ args.params.interval_mode = "threshold"
    /\ args.hasMask
    /\ args.image.h > 1 /\ args.image.w > 1
    /\ Returned # args.image

====
